---------------------------- MODULE Spec2Model ----------------------------
(***************************************************************************)
(* Model of the streaming core of health-data-bricks:                      *)
(*   - src/src/core/physics/surprise-filter.ts (AdaptiveThreshold,         *)
(*     OnlineStats, ExponentialPredictor, SurpriseCalculator,              *)
(*     SurpriseFilter)                                                     *)
(*   - src/unnamed/part_001 (CfCCell, HealthStateEstimator)                *)
(*   - src/unnamed/part_002 (InterventionPlanner)                          *)
(*                                                                         *)
(* JavaScript numbers are IEEE-754 binary floating point values.  They are *)
(* modelled as binary floating point values with a significand of Prec     *)
(* bits and round-to-nearest-even after every arithmetic operation, which  *)
(* is what the hardware does with 53 bits.  Exponents are unbounded, so    *)
(* overflow to Infinity and underflow are outside the model.  A JavaScript *)
(* value is a record [k, m, e]: k = "num" stands for m * 2^e, and the      *)
(* other kinds are NaN, undefined, null and +Infinity.                     *)
(***************************************************************************)
EXTENDS Integers, Sequences, FiniteSets, TLC

\* Significand width of the modelled floating point format.  13 = 53 mod 4,
\* so 0.1, 0.3 and 0.7 (binary period 4) round in the same direction as
\* they do in binary64.
Prec == 13

----------------------------------------------------------------------------
(* JavaScript values and floating point arithmetic                         *)

\* LET v == e IN F(v), with e evaluated once
Let1(e, F(_)) == CHOOSE r \in {F(v) : v \in {e}} : TRUE
Let2(e1, e2, F(_, _)) == CHOOSE r \in {F(v, w) : v \in {e1}, w \in {e2}} : TRUE

Num(m, e) == [k |-> "num", m |-> m, e |-> e]
Zero == Num(0, 0)
NaN == [k |-> "nan", m |-> 0, e |-> 0]
Undefined == [k |-> "undef", m |-> 0, e |-> 0]
Null == [k |-> "null", m |-> 0, e |-> 0]
Infinity == [k |-> "inf", m |-> 1, e |-> 0]

IsNum(x) == x.k = "num"

Abs(n) == IF n < 0 THEN -n ELSE n
Sgn(n) == IF n < 0 THEN -1 ELSE 1

\* the number of bits of n >= 0
BitLen(n) == CHOOSE b \in 0..31 : n < 2^b /\ (b = 0 \/ n >= 2^(b - 1))

\* a >= 2^Prec with nb bits, rounded to Prec bits, ties to even
RoundShift(sg, a, e, sh) ==
    Let2(a \div 2^sh, a % 2^sh, LAMBDA q, r :
      Let1(IF r > 2^(sh - 1) \/ (r = 2^(sh - 1) /\ q % 2 = 1) THEN q + 1 ELSE q,
           LAMBDA q1 : IF q1 = 2^Prec
                       THEN Num(sg * 2^(Prec - 1), e + sh + 1)
                       ELSE Num(sg * q1, e + sh)))

\* Round the exact value m * 2^e (sticky information already folded into
\* the low bit of m where the caller lost bits) to Prec significant bits,
\* ties to even.
RoundV(m, e) ==
    IF m = 0 THEN Zero
    ELSE Let1(BitLen(Abs(m)), LAMBDA nb :
           IF nb <= Prec
           THEN Num(m * 2^(Prec - nb), e - (Prec - nb))
           ELSE RoundShift(Sgn(m), Abs(m), e, nb - Prec))

Round(m, e) == Let2(m, e, LAMBDA mv, ev : RoundV(mv, ev))

FromInt(n) == Round(n, 0)

\* x + y for two nonzero "num" values with x.e >= y.e
AddAligned(x, y) ==
    IF x.e - y.e >= Prec + 2 THEN x
    ELSE Round(x.m * 2^(x.e - y.e) + y.m, y.e)

AddV(x, y) ==
    IF ~IsNum(x) \/ ~IsNum(y) THEN NaN
    ELSE IF x.m = 0 THEN y
    ELSE IF y.m = 0 THEN x
    ELSE IF x.e >= y.e THEN AddAligned(x, y) ELSE AddAligned(y, x)

\* x + y
FAdd(x, y) == Let2(x, y, LAMBDA a, b : AddV(a, b))

\* -x
FNeg(x) == Let1(x, LAMBDA a : IF IsNum(a) THEN Num(-a.m, a.e) ELSE NaN)

\* x - y
FSub(x, y) == FAdd(x, FNeg(y))

MulV(x, y) ==
    IF ~IsNum(x) \/ ~IsNum(y) THEN NaN
    ELSE RoundV(x.m * y.m, x.e + y.e)

\* x * y
FMul(x, y) == Let2(x, y, LAMBDA a, b : MulV(a, b))

\* Prec + 2 quotient bits and a sticky bit, then rounded
DivV(x, y) ==
    IF ~IsNum(x) \/ ~IsNum(y) THEN NaN
    ELSE IF y.m = 0 THEN NaN
    ELSE IF x.m = 0 THEN Zero
    ELSE Let2(Abs(x.m) * 2^(Prec + 2), Abs(y.m), LAMBDA n, d :
           Round(Sgn(x.m) * Sgn(y.m) * (2 * (n \div d) + (IF n % d = 0 THEN 0 ELSE 1)),
                 x.e - y.e - Prec - 3))

\* x / y (the model never divides by zero)
FDiv(x, y) == Let2(x, y, LAMBDA a, b : DivV(a, b))

\* the integer square root of n, bit by bit from bit down
RECURSIVE ISqrtBits(_, _, _)
ISqrtBits(n, r, bit) ==
    IF bit < 0 THEN r
    ELSE Let1(IF (r + 2^bit) * (r + 2^bit) <= n THEN r + 2^bit ELSE r,
              LAMBDA r1 : ISqrtBits(n, r1, bit - 1))

SqrtV(x) ==
    IF ~IsNum(x) THEN NaN
    ELSE IF x.m < 0 THEN NaN
    ELSE IF x.m = 0 THEN Zero
    ELSE Let1(IF (x.e - Prec - 1) % 2 = 0 THEN Prec + 1 ELSE Prec + 2, LAMBDA s :
           Let1(ISqrtBits(x.m * 2^s, 0, Prec + 1), LAMBDA r :
             Round(2 * r + (IF r * r = x.m * 2^s THEN 0 ELSE 1),
                   ((x.e - s) \div 2) - 1)))

\* Math.sqrt
FSqrt(x) == Let1(x, LAMBDA a : SqrtV(a))

\* Math.abs
FAbs(x) == Let1(x, LAMBDA a : IF IsNum(a) THEN Num(Abs(a.m), a.e) ELSE NaN)

\* the sign of x - y for two "num" values
Cmp(x, y) ==
    Let1(FSub(x, y), LAMBDA d : IF d.m > 0 THEN 1 ELSE IF d.m < 0 THEN -1 ELSE 0)

\* x > y, x >= y: false when either side is NaN, undefined or null;
\* Infinity is above every other number
FGt(x, y) ==
    Let2(x, y, LAMBDA a, b :
      \/ IsNum(a) /\ IsNum(b) /\ Cmp(a, b) = 1
      \/ a = Infinity /\ IsNum(b))
FGe(x, y) ==
    Let2(x, y, LAMBDA a, b :
      \/ IsNum(a) /\ IsNum(b) /\ Cmp(a, b) >= 0
      \/ a = Infinity /\ (IsNum(b) \/ b = Infinity))

\* Math.max
FMax(x, y) ==
    Let2(x, y, LAMBDA a, b :
      IF ~IsNum(a) \/ ~IsNum(b) THEN NaN ELSE IF Cmp(a, b) >= 0 THEN a ELSE b)

\* a decimal literal a/b of the source, correctly rounded
Lit(a, b) == FDiv(FromInt(a), FromInt(b))

\* JavaScript truthiness of a value: 0, NaN, undefined and null are falsy
Truthy(x) == (x.k = "num" /\ x.m # 0) \/ x.k = "inf"

One == Num(2^(Prec - 1), 1 - Prec)

\* x < y
FLt(x, y) == FGt(y, x)

\* the integer nearest to the "num" value x, |x| < 2^30
NearestInt(x) ==
    IF x.e >= 0 THEN x.m * 2^x.e
    ELSE IF -x.e > Prec + 1 THEN 0
    ELSE Sgn(x.m) * ((Abs(x.m) + 2^(-x.e - 1)) \div 2^(-x.e))

\* x * 2^n
Scale2(x, n) == IF x.m = 0 THEN x ELSE Num(x.m, x.e + n)

Ln2 == Round(11629080, -24)

\* e^r for |r| <= ln(2)/2, by its Taylor polynomial of degree 5
ExpSmall(r) ==
    Let1(FAdd(One, FDiv(r, FromInt(5))), LAMBDA p5 :
      Let1(FAdd(One, FMul(FDiv(r, FromInt(4)), p5)), LAMBDA p4 :
        Let1(FAdd(One, FMul(FDiv(r, FromInt(3)), p4)), LAMBDA p3 :
          Let1(FAdd(One, FMul(FDiv(r, FromInt(2)), p3)), LAMBDA p2 :
            FAdd(One, FMul(r, p2))))))

\* e^x = 2^n * e^(x - n ln 2) for the integer n nearest to x / ln 2
ExpV(x) ==
    IF ~IsNum(x) THEN NaN
    ELSE IF x.m = 0 THEN One
    ELSE IF FLt(x, FromInt(-745)) THEN Zero
    ELSE IF FGt(x, FromInt(709)) THEN Infinity
    ELSE Let1(NearestInt(FDiv(x, Ln2)), LAMBDA n :
           Scale2(ExpSmall(FSub(x, FMul(FromInt(n), Ln2))), n))

\* Math.exp: to the precision of the format, 0 below the underflow
\* threshold and Infinity above the overflow threshold of binary64
FExp(x) == Let1(x, LAMBDA a : ExpV(a))

\* tanh(d) for 0 <= d: d - d^3/3 near 0, (1 - e^(-2d)) / (1 + e^(-2d)) else
TanhV(d) ==
    IF ~IsNum(d) THEN NaN
    ELSE IF d.m = 0 THEN Zero
    ELSE IF FLt(d, Lit(1, 8))
    THEN FSub(d, FDiv(FMul(FMul(d, d), d), FromInt(3)))
    ELSE Let1(FExp(FMul(FromInt(-2), d)), LAMBDA ex :
           FDiv(FSub(One, ex), FAdd(One, ex)))

\* Math.tanh of a value that is not negative
FTanh(x) == Let1(x, LAMBDA a : TanhV(a))

----------------------------------------------------------------------------
(* AdaptiveThreshold, OnlineStats, ExponentialPredictor                    *)

\* a threshold that follows the latest surprise five times as fast
ThresholdAlphaFast == Lit(1, 2)

\* AdaptiveThreshold: constructor defaults
ThresholdAlpha == Lit(1, 10)
ThresholdInitial == One

NewThreshold == [mean |-> ThresholdInitial, variance |-> One, initialized |-> FALSE]

\* AdaptiveThreshold.get with sensitivity k
ThresholdGet(t, k) == FAdd(t.mean, FMul(k, FSqrt(t.variance)))

\* a first update that leaves the variance of the constructor
ThresholdUpdateKeepVariance(t, surprise) ==
    IF ~t.initialized
    THEN [mean |-> surprise, variance |-> t.variance, initialized |-> TRUE]
    ELSE Let2(FSub(surprise, t.mean), FSub(One, ThresholdAlpha), LAMBDA delta, keepw :
           [mean |-> FAdd(FMul(ThresholdAlpha, surprise), FMul(keepw, t.mean)),
            variance |-> FAdd(FMul(FMul(ThresholdAlpha, delta), delta),
                              FMul(keepw, t.variance)),
            initialized |-> TRUE])

\* AdaptiveThreshold.update: the state after the update
ThresholdUpdate(t, surprise) ==
    IF ~t.initialized
    THEN [mean |-> surprise, variance |-> Zero, initialized |-> TRUE]
    ELSE Let2(FSub(surprise, t.mean), FSub(One, ThresholdAlpha), LAMBDA delta, keepw :
           [mean |-> FAdd(FMul(ThresholdAlpha, surprise), FMul(keepw, t.mean)),
            variance |-> FAdd(FMul(FMul(ThresholdAlpha, delta), delta),
                              FMul(keepw, t.variance)),
            initialized |-> TRUE])

NewStats == [count |-> 0, mean |-> Zero, m2 |-> Zero]

\* OnlineStats.update (Welford)
StatsUpdate(s, value) ==
    Let1(FSub(value, s.mean), LAMBDA delta :
      Let1(FAdd(s.mean, FDiv(delta, FromInt(s.count + 1))), LAMBDA mean :
        [count |-> s.count + 1, mean |-> mean,
         m2 |-> FAdd(s.m2, FMul(delta, FSub(value, mean)))]))

\* a variance that divides by the count
StatsVariancePopulation(s) ==
    IF s.count > 1 THEN FDiv(s.m2, FromInt(s.count)) ELSE Zero

\* OnlineStats.getVariance, getStdDev
StatsVariance(s) == IF s.count > 1 THEN FDiv(s.m2, FromInt(s.count - 1)) ELSE Zero
StatsStdDev(s) == FSqrt(StatsVariance(s))

\* ExponentialPredictor: smoothing parameters
PredictorAlpha == Lit(3, 10)
PredictorBeta == Lit(1, 10)

NewPredictor == [level |-> Null, trend |-> Zero]

\* ExponentialPredictor.predict
PredictorPredict(p) == IF p.level = Null THEN Null ELSE FAdd(p.level, p.trend)

\* ExponentialPredictor.update: the state after the update and the returned
\* absolute prediction error
PredictorUpdate(p, value) ==
    IF p.level = Null
    THEN [predictor |-> [level |-> value, trend |-> Zero], error |-> Zero]
    ELSE Let1(FAdd(p.level, p.trend), LAMBDA prediction :
           Let1(FAdd(FMul(PredictorAlpha, value),
                     FMul(FSub(One, PredictorAlpha), FAdd(p.level, p.trend))),
                LAMBDA level :
                  [predictor |->
                     [level |-> level,
                      trend |-> FAdd(FMul(PredictorBeta, FSub(level, p.level)),
                                     FMul(FSub(One, PredictorBeta), p.trend))],
                   error |-> FAbs(FSub(value, prediction))]))

----------------------------------------------------------------------------
(* SurpriseCalculator                                                      *)

NewCalculator ==
    [predictor |-> NewPredictor, threshold |-> NewThreshold,
     stats |-> NewStats, errorStats |-> NewStats]

\* errorStats.getStdDev() || 1
OrOne(x) == Let1(x, LAMBDA v : IF Truthy(v) THEN v ELSE One)

\* keep a value whose surprise equals the threshold too
KeepDecisionGe(surprise, currentThreshold) == FGe(surprise, currentThreshold)

\* keep: surprise > currentThreshold
KeepDecision(surprise, currentThreshold) == FGt(surprise, currentThreshold)

\* the z-score of the error against the updated error statistics
ZScore(error, errorStats) ==
    FDiv(FSub(error, errorStats.mean), OrOne(StatsStdDev(errorStats)))

\* the SurpriseResult, from the threshold as updated by this call
CalcResult(k, prediction, zscore, surprise, threshold) ==
    Let1(ThresholdGet(threshold, k), LAMBDA currentThreshold :
      [surprise |-> surprise, threshold |-> currentThreshold,
       keep |-> KeepDecision(surprise, currentThreshold),
       prediction |-> prediction, zscore |-> zscore])

\* SurpriseCalculator.calculate with threshold sensitivity k: the calculator
\* after the call and the SurpriseResult
Calculate(c, k, value) ==
    Let2(PredictorPredict(c.predictor), PredictorUpdate(c.predictor, value),
         LAMBDA prediction, pu :
      Let2(StatsUpdate(c.errorStats, pu.error), StatsUpdate(c.stats, value),
           LAMBDA errorStats, stats :
        Let1(ZScore(pu.error, errorStats), LAMBDA zscore :
          Let1(FMul(FMul(Lit(1, 2), zscore), zscore), LAMBDA surprise :
            Let1(ThresholdUpdate(c.threshold, surprise), LAMBDA threshold :
              [calc |-> [predictor |-> pu.predictor, threshold |-> threshold,
                         stats |-> stats, errorStats |-> errorStats],
               result |-> CalcResult(k, prediction, zscore, surprise, threshold)])))))

----------------------------------------------------------------------------
(* SurpriseFilter                                                          *)

\* A HealthRecord as the filter reads it: its type tag and the three fields
\* extractValue may read (Undefined: the record has no such field).
Record(type, value, duration, systolic) ==
    [type |-> type, value |-> value, duration |-> duration, systolic |-> systolic]

DefaultMetrics == {"heart_rate", "steps", "sleep_duration", "calories"}

EmptyMap == [t \in {} |-> Null]

\* for (const key of keys) map.set(key, v)
MapSetAll(map, keys, v) ==
    [t \in (DOMAIN map) \cup keys |-> IF t \in keys THEN v ELSE map[t]]

\* SurpriseFilter constructor, after the config defaults are merged
NewFilter(cfg) ==
    [calculators |-> MapSetAll(EmptyMap, cfg.metrics, NewCalculator),
     sampleCount |-> 0]

\* extractValue reading the value field of every other type too
ExtractValueAny(record) ==
    CASE record.type = "sleep" -> record.duration
      [] record.type = "blood_pressure" -> record.systolic
      [] OTHER -> record.value

\* SurpriseFilter.extractValue
ExtractValue(record) ==
    CASE record.type = "heart_rate" -> record.value
      [] record.type = "steps" -> record.value
      [] record.type = "calories" -> record.value
      [] record.type = "sleep" -> record.duration
      [] record.type = "weight" -> record.value
      [] record.type = "blood_pressure" -> record.systolic
      [] record.type = "blood_oxygen" -> record.value
      [] OTHER -> Null

\* a warmup that ends one sample early
InWarmupOffByOne(count, cfg) == count + 1 < cfg.minSamples

\* the warmup test of filter, on the incremented sample counter
InWarmup(count, cfg) == count < cfg.minSamples

\* this.calculators.get(type), or a new calculator
GetOrCreate(calculators, type) ==
    IF type \in DOMAIN calculators THEN calculators[type] ELSE NewCalculator

\* filter past the warmup and extraction tests: the calculator's verdict
FilterCalculate(f, cfg, record, value) ==
    Let1(Calculate(GetOrCreate(f.calculators, record.type), cfg.thresholdK, value),
         LAMBDA r :
      [flt |-> [calculators |-> MapSetAll(f.calculators, {record.type}, r.calc),
                sampleCount |-> f.sampleCount + 1],
       result |-> [keep |-> r.result.keep,
                   totalSurprise |-> r.result.surprise,
                   metricSurprises |-> (record.type :> r.result),
                   reason |-> IF r.result.keep THEN "surprising" ELSE "expected"]])

\* SurpriseFilter.filter: the filter after the call and the FilterResult
FilterStep(f, cfg, record) ==
    IF InWarmup(f.sampleCount + 1, cfg)
    THEN [flt |-> [f EXCEPT !.sampleCount = f.sampleCount + 1],
          result |-> [keep |-> TRUE, totalSurprise |-> Zero,
                      metricSurprises |-> EmptyMap, reason |-> "warmup"]]
    ELSE IF ExtractValue(record) = Null
    THEN [flt |-> [f EXCEPT !.sampleCount = f.sampleCount + 1],
          result |-> [keep |-> TRUE, totalSurprise |-> Zero,
                      metricSurprises |-> EmptyMap, reason |-> "unsupported_type"]]
    ELSE FilterCalculate(f, cfg, record, ExtractValue(record))

\* the for loop of filterBatch from record i on
RECURSIVE BatchLoop(_, _, _, _, _, _, _)
BatchLoop(f, cfg, records, i, kept, dropped, totalSurprise) ==
    IF i > Len(records)
    THEN [flt |-> f, kept |-> kept, dropped |-> dropped,
          totalSurprise |-> totalSurprise]
    ELSE Let1(FilterStep(f, cfg, records[i]), LAMBDA r :
           Let2(IF r.result.keep THEN Append(kept, records[i]) ELSE kept,
                IF r.result.keep THEN dropped ELSE Append(dropped, records[i]),
                LAMBDA kept1, dropped1 :
             Let1(FAdd(totalSurprise, r.result.totalSurprise), LAMBDA total1 :
               BatchLoop(r.flt, cfg, records, i + 1, kept1, dropped1, total1))))

\* filterBatch reporting the kept fraction as its filterRate
FilterBatchKeptRate(f, cfg, records) ==
    Let2(BatchLoop(f, cfg, records, 1, <<>>, <<>>, Zero), Len(records), LAMBDA l, n :
      [flt |-> l.flt,
       result |->
         [kept |-> l.kept, dropped |-> l.dropped,
          stats |-> [total |-> n, kept |-> Len(l.kept), dropped |-> Len(l.dropped),
                     filterRate |-> IF n > 0
                                    THEN FDiv(FromInt(Len(l.kept)), FromInt(n))
                                    ELSE Zero,
                     avgSurprise |-> IF n > 0
                                     THEN FDiv(l.totalSurprise, FromInt(n))
                                     ELSE Zero]]])

\* SurpriseFilter.filterBatch: the filter after the call and what it returns
FilterBatch(f, cfg, records) ==
    Let2(BatchLoop(f, cfg, records, 1, <<>>, <<>>, Zero), Len(records), LAMBDA l, n :
      [flt |-> l.flt,
       result |->
         [kept |-> l.kept, dropped |-> l.dropped,
          stats |-> [total |-> n, kept |-> Len(l.kept), dropped |-> Len(l.dropped),
                     filterRate |-> IF n > 0
                                    THEN FDiv(FromInt(Len(l.dropped)), FromInt(n))
                                    ELSE Zero,
                     avgSurprise |-> IF n > 0
                                     THEN FDiv(l.totalSurprise, FromInt(n))
                                     ELSE Zero]]])

\* a clear() that removes nothing
MapClearNothing(map) == map

\* this.calculators.clear()
MapClear(map) == EmptyMap

\* SurpriseFilter.reset
FilterReset(f, cfg) ==
    [calculators |-> MapSetAll(MapClear(f.calculators), cfg.metrics, NewCalculator),
     sampleCount |-> 0]

----------------------------------------------------------------------------
(* CfCCell                                                                 *)

\* <<F(i), ..., F(n)>>, every element evaluated once
RECURSIVE SeqFrom(_, _, _)
SeqFrom(F(_), i, n) == IF i > n THEN <<>> ELSE <<F(i)>> \o SeqFrom(F, i + 1, n)

\* new Array(n).fill(v)
Fill(n, v) == Let1(v, LAMBDA x : SeqFrom(LAMBDA i : x, 1, n))

Min(a, b) == IF a <= b THEN a ELSE b

\* DEFAULT_CFC_CONFIG
DefaultCfCConfig ==
    [stateDim |-> 32, tauMin |-> Lit(5, 100), tauMax |-> FromInt(86400)]

\* { ...DEFAULT_CFC_CONFIG, ...config }: the fields of config that are given
\* override the defaults
MergeCfCConfig(config) ==
    [f \in DOMAIN DefaultCfCConfig |->
       IF f \in DOMAIN config THEN config[f] ELSE DefaultCfCConfig[f]]

\* CfCCell constructor, for a config [stateDim, tauMin, tauMax]
NewCell(cfg) ==
    [state |-> Fill(cfg.stateDim, Zero),
     tau |-> Fill(cfg.stateDim, FDiv(FAdd(cfg.tauMin, cfg.tauMax), FromInt(2))),
     equilibrium |-> Fill(cfg.stateDim, Zero),
     lastTimestamp |-> Null]

\* a dt clamped to 1e4 in place of 1e-4
StepDtCoarse(c, timestamp) ==
    IF c.lastTimestamp = Null THEN Lit(1, 10)
    ELSE FMax(FSub(timestamp, c.lastTimestamp), FromInt(10000))

\* a dt that is not clamped: the time since the last call, as it is
StepDtUnclamped(c, timestamp) ==
    IF c.lastTimestamp = Null THEN Lit(1, 10)
    ELSE FSub(timestamp, c.lastTimestamp)

\* the dt of step: 0.1 on the first call, else max(timestamp - last, 1e-4)
StepDt(c, timestamp) ==
    IF c.lastTimestamp = Null THEN Lit(1, 10)
    ELSE FMax(FSub(timestamp, c.lastTimestamp), Lit(1, 10000))

\* an equilibrium that jumps to the observation
EquilibriumAtObservation(c, cfg, observation, i) ==
    IF i <= Min(Len(observation), cfg.stateDim) THEN observation[i]
    ELSE c.equilibrium[i]

\* CfCCell.updateEquilibrium, component i
EquilibriumAt(c, cfg, observation, i) ==
    IF i <= Min(Len(observation), cfg.stateDim)
    THEN FAdd(FMul(Lit(3, 10), observation[i]),
              FMul(FSub(One, Lit(3, 10)), c.equilibrium[i]))
    ELSE c.equilibrium[i]

\* an updateTau whose target spans from tauMax down to 0
TauAtFullRange(c, cfg, observation, i) ==
    IF i <= Min(Len(observation), cfg.stateDim)
    THEN Let1(FTanh(FAbs(FSub(observation[i], c.state[i]))), LAMBDA normalizedDiff :
           Let1(FSub(cfg.tauMax, FMul(normalizedDiff, cfg.tauMax)),
                LAMBDA targetTau :
                  FAdd(FMul(Lit(1, 10), targetTau), FMul(Lit(9, 10), c.tau[i]))))
    ELSE c.tau[i]

\* CfCCell.updateTau, component i
TauAt(c, cfg, observation, i) ==
    IF i <= Min(Len(observation), cfg.stateDim)
    THEN Let1(FTanh(FAbs(FSub(observation[i], c.state[i]))), LAMBDA normalizedDiff :
           Let1(FSub(cfg.tauMax, FMul(normalizedDiff, FSub(cfg.tauMax, cfg.tauMin))),
                LAMBDA targetTau :
                  FAdd(FMul(Lit(1, 10), targetTau), FMul(Lit(9, 10), c.tau[i]))))
    ELSE c.tau[i]

\* h * decay + equilibrium * (1 - decay) with decay = exp(-dt / tau)
Relax(h, equilibrium, tau, dt) ==
    Let1(FExp(FDiv(FNeg(dt), tau)), LAMBDA decay :
      FAdd(FMul(h, decay), FMul(equilibrium, FSub(One, decay))))

\* CfCCell.step: the cell after the call; the call returns its state
CellStepTo(c, cfg, dt, timestamp, equilibrium, tau) ==
    [state |-> SeqFrom(LAMBDA i : Relax(c.state[i], equilibrium[i], tau[i], dt),
                       1, cfg.stateDim),
     tau |-> tau,
     equilibrium |-> equilibrium,
     lastTimestamp |-> timestamp]

CellStep(c, cfg, observation, timestamp) ==
    Let2(SeqFrom(LAMBDA i : EquilibriumAt(c, cfg, observation, i), 1, cfg.stateDim),
         SeqFrom(LAMBDA i : TauAt(c, cfg, observation, i), 1, cfg.stateDim),
         LAMBDA equilibrium, tau :
           CellStepTo(c, cfg, StepDt(c, timestamp), timestamp, equilibrium, tau))

\* a prediction horizon measured backwards
PredictDtBackward(c, futureTimestamp) ==
    FMax(FSub(c.lastTimestamp, futureTimestamp), Zero)

\* a prediction horizon of at least a minute
PredictDtFloor(c, futureTimestamp) ==
    FMax(FSub(futureTimestamp, c.lastTimestamp), FromInt(60))

\* the dt of predict
PredictDt(c, futureTimestamp) == FMax(FSub(futureTimestamp, c.lastTimestamp), Zero)

\* a predict that moves the cell to the predicted time
CellPredictStore(c, cfg, futureTimestamp) ==
    IF c.lastTimestamp = Null
    THEN [cell |-> c, result |-> Fill(cfg.stateDim, Zero)]
    ELSE Let1(PredictDt(c, futureTimestamp), LAMBDA dt :
           Let1(SeqFrom(LAMBDA i : Relax(c.state[i], c.equilibrium[i], c.tau[i], dt),
                        1, cfg.stateDim),
                LAMBDA result :
                  [cell |-> [c EXCEPT !.state = result,
                                      !.lastTimestamp = futureTimestamp],
                   result |-> result]))

\* CfCCell.predict: the cell after the call and the returned vector
CellPredict(c, cfg, futureTimestamp) ==
    IF c.lastTimestamp = Null
    THEN [cell |-> c, result |-> Fill(cfg.stateDim, Zero)]
    ELSE Let1(PredictDt(c, futureTimestamp), LAMBDA dt :
           [cell |-> c,
            result |-> SeqFrom(LAMBDA i : Relax(c.state[i], c.equilibrium[i],
                                                c.tau[i], dt),
                               1, cfg.stateDim)])

\* CfCCell.reset
CellReset(c, cfg) ==
    [state |-> Fill(cfg.stateDim, Zero),
     tau |-> Fill(cfg.stateDim, FDiv(FAdd(cfg.tauMin, cfg.tauMax), FromInt(2))),
     equilibrium |-> Fill(cfg.stateDim, Zero),
     lastTimestamp |-> Null]

----------------------------------------------------------------------------
(* HealthStateEstimator                                                    *)

\* the CfCConfig the estimator gives the cell of a dimension
DimCellConfig(dim) == [stateDim |-> 4, tauMin |-> dim.tauMin, tauMax |-> dim.tauMax]

DimNames(cfg) == {cfg.dimensions[i].name : i \in 1..Len(cfg.dimensions)}

\* the map over the dimension names whose value for dimensions[i] is xs[i]
ByName(cfg, xs) ==
    [n \in DimNames(cfg) |->
       xs[CHOOSE i \in 1..Len(cfg.dimensions) : cfg.dimensions[i].name = n]]

\* HealthStateEstimator constructor
NewEstimator(cfg) ==
    [cells |-> ByName(cfg, SeqFrom(LAMBDA i : NewCell(DimCellConfig(cfg.dimensions[i])),
                                   1, Len(cfg.dimensions))),
     lastUpdateTime |-> Null]

\* observations[name] ?? 0
ObsValue(observations, name) ==
    IF name \in DOMAIN observations /\ observations[name] \notin {Null, Undefined}
    THEN observations[name] ELSE Zero

\* the scalar expanded to the observation vector of a cell
ObsVector(v) == <<v, FMul(v, Lit(1, 2)), FMul(v, Lit(1, 4)), FMul(v, Lit(1, 8))>>

\* the weighted sum of a cell's vector
Aggregate(state) ==
    FAdd(FAdd(FAdd(FMul(state[1], Lit(1, 2)), FMul(state[2], Lit(3, 10))),
              FMul(state[3], Lit(15, 100))),
         FMul(state[4], Lit(5, 100)))

\* tau.reduce((a, b) => a + b, 0) from element i on
RECURSIVE SumFrom(_, _, _)
SumFrom(xs, i, acc) ==
    IF i > Len(xs) THEN acc
    ELSE Let1(FAdd(acc, xs[i]), LAMBDA a : SumFrom(xs, i + 1, a))

AvgTau(c) == FDiv(SumFrom(c.tau, 1, Zero), FromInt(Len(c.tau)))

\* update, for one dimension: the cell after step, the scalar, the confidence
DimUpdate(c, dim, observations, timestamp) ==
    Let1(CellStep(c, DimCellConfig(dim), ObsVector(ObsValue(observations, dim.name)),
                  timestamp),
         LAMBDA cell :
           [cell |-> cell,
            dimension |-> Aggregate(cell.state),
            confidence |-> FExp(FDiv(FNeg(Lit(1, 10)), AvgTau(cell)))])

\* HealthStateEstimator.update: the estimator after the call and the
\* HealthState it returns
EstUpdate(e, cfg, observations, timestamp) ==
    Let1(SeqFrom(LAMBDA i : DimUpdate(e.cells[cfg.dimensions[i].name],
                                      cfg.dimensions[i], observations, timestamp),
                 1, Len(cfg.dimensions)),
         LAMBDA ds :
           [est |-> [cells |-> ByName(cfg, SeqFrom(LAMBDA i : ds[i].cell, 1, Len(ds))),
                     lastUpdateTime |-> timestamp],
            result |->
              [timestamp |-> timestamp,
               dimensions |-> ByName(cfg, SeqFrom(LAMBDA i : ds[i].dimension, 1, Len(ds))),
               confidence |-> ByName(cfg, SeqFrom(LAMBDA i : ds[i].confidence, 1, Len(ds))),
               timeSinceUpdate |-> Zero]])

\* predict, for one dimension: the cell after predict, the scalar, the
\* confidence
DimPredict(e, c, dim, futureTimestamp) ==
    Let2(CellPredict(c, DimCellConfig(dim), futureTimestamp),
         IF Truthy(e.lastUpdateTime) THEN FSub(futureTimestamp, e.lastUpdateTime)
         ELSE Zero,
         LAMBDA p, dt :
           [cell |-> p.cell,
            dimension |-> Aggregate(p.result),
            confidence |-> FExp(FDiv(FNeg(dt), AvgTau(p.cell)))])

\* HealthStateEstimator.predict: the estimator after the call and the
\* HealthState it returns
EstPredict(e, cfg, futureTimestamp) ==
    Let1(SeqFrom(LAMBDA i : DimPredict(e, e.cells[cfg.dimensions[i].name],
                                       cfg.dimensions[i], futureTimestamp),
                 1, Len(cfg.dimensions)),
         LAMBDA ds :
           [est |-> [cells |-> ByName(cfg, SeqFrom(LAMBDA i : ds[i].cell, 1, Len(ds))),
                     lastUpdateTime |-> e.lastUpdateTime],
            result |->
              [timestamp |-> futureTimestamp,
               dimensions |-> ByName(cfg, SeqFrom(LAMBDA i : ds[i].dimension, 1, Len(ds))),
               confidence |-> ByName(cfg, SeqFrom(LAMBDA i : ds[i].confidence, 1, Len(ds))),
               timeSinceUpdate |-> IF Truthy(e.lastUpdateTime)
                                   THEN FSub(futureTimestamp, e.lastUpdateTime)
                                   ELSE Infinity]])

\* HealthStateEstimator.getCurrentState
EstGetCurrentState(e, cfg) ==
    IF e.lastUpdateTime = Null THEN [est |-> e, result |-> Null]
    ELSE EstPredict(e, cfg, e.lastUpdateTime)

\* a reset that forgets to clear lastUpdateTime
EstResetKeepTime(e, cfg) ==
    [cells |-> ByName(cfg, SeqFrom(LAMBDA i :
                                     CellReset(e.cells[cfg.dimensions[i].name],
                                               DimCellConfig(cfg.dimensions[i])),
                                   1, Len(cfg.dimensions))),
     lastUpdateTime |-> e.lastUpdateTime]

\* HealthStateEstimator.reset
EstReset(e, cfg) ==
    [cells |-> ByName(cfg, SeqFrom(LAMBDA i :
                                     CellReset(e.cells[cfg.dimensions[i].name],
                                               DimCellConfig(cfg.dimensions[i])),
                                   1, Len(cfg.dimensions))),
     lastUpdateTime |-> Null]

----------------------------------------------------------------------------
(* InterventionPlanner: objects, gap and scores                            *)

\* Math.min
FMin(x, y) ==
    Let2(x, y, LAMBDA a, b :
      IF ~IsNum(a) \/ ~IsNum(b) THEN NaN ELSE IF Cmp(a, b) <= 0 THEN a ELSE b)

\* A Record<string, number> is the sequence of its [key, value] entries in
\* insertion order.  Object.keys(o):
ObjKeys(o) == [i \in 1..Len(o) |-> o[i].key]

\* o[k]
ObjGet(o, k) ==
    IF \E i \in 1..Len(o) : o[i].key = k
    THEN o[CHOOSE i \in 1..Len(o) : o[i].key = k].value
    ELSE Undefined

\* x || 0
OrZero(x) == IF Truthy(x) THEN x ELSE Zero

\* new Set([...keys]) added to acc: first occurrences, in order
RECURSIVE AddKeys(_, _)
AddKeys(acc, keys) ==
    IF keys = <<>> THEN acc
    ELSE AddKeys(IF \E i \in 1..Len(acc) : acc[i] = Head(keys)
                 THEN acc ELSE Append(acc, Head(keys)),
                 Tail(keys))

\* an effect of an action; timeToEffect is never read
Effect(dimension, magnitude, confidence) ==
    [dimension |-> dimension, magnitude |-> magnitude, confidence |-> confidence]

Action(id, category, cost, duration, effects) ==
    [id |-> id, category |-> category, cost |-> cost, duration |-> duration,
     effects |-> effects]

\* a gap over the keys of the target only
CalculateGapOfTargetKeys(current, target) ==
    Let1(ObjKeys(target), LAMBDA allDims :
      SeqFrom(LAMBDA i : [key |-> allDims[i],
                          value |-> FSub(OrZero(ObjGet(target, allDims[i])),
                                         OrZero(ObjGet(current, allDims[i])))],
              1, Len(allDims)))

\* InterventionPlanner.calculateGap
CalculateGap(current, target) ==
    Let1(AddKeys(<<>>, ObjKeys(current) \o ObjKeys(target)), LAMBDA allDims :
      SeqFrom(LAMBDA i : [key |-> allDims[i],
                          value |-> FSub(OrZero(ObjGet(target, allDims[i])),
                                         OrZero(ObjGet(current, allDims[i])))],
              1, Len(allDims)))

\* scoreActions: what one effect adds to the benefit
EffectBenefit(benefit, effect, gap) ==
    Let1(OrZero(ObjGet(gap, effect.dimension)), LAMBDA dimGap :
      IF \/ FGt(dimGap, Zero) /\ FGt(effect.magnitude, Zero)
         \/ FLt(dimGap, Zero) /\ FLt(effect.magnitude, Zero)
      THEN FAdd(benefit, FMul(FMin(FAbs(dimGap), FAbs(effect.magnitude)),
                              effect.confidence))
      ELSE IF FGt(FAbs(effect.magnitude), FMul(FAbs(dimGap), FromInt(2)))
      THEN FSub(benefit, FMul(FMul(Lit(1, 10), FAbs(effect.magnitude)),
                              effect.confidence))
      ELSE benefit)

\* scoreActions: the loop over the effects of an action, from effect i on
RECURSIVE EffectsLoop(_, _, _, _, _)
EffectsLoop(effects, i, gap, benefit, totalWeight) ==
    IF i > Len(effects) THEN [benefit |-> benefit, totalWeight |-> totalWeight]
    ELSE Let2(EffectBenefit(benefit, effects[i], gap),
              FAdd(totalWeight, effects[i].confidence),
              LAMBDA b, w : EffectsLoop(effects, i + 1, gap, b, w))

\* a sparsity penalty that is added instead of subtracted
ScoreRewardingSparsity(benefit, sparsityPenalty, costPenalty) ==
    FMax(Zero, FSub(FAdd(benefit, sparsityPenalty), costPenalty))

\* Math.max(0, benefit - sparsityPenalty - costPenalty)
Score(benefit, sparsityPenalty, costPenalty) ==
    FMax(Zero, FSub(FSub(benefit, sparsityPenalty), costPenalty))

\* scoreActions: the score of one action
ActionScore(action, gap, config) ==
    Let1(EffectsLoop(action.effects, 1, gap, Zero, Zero), LAMBDA r :
      Let1(IF FGt(r.totalWeight, Zero) THEN FDiv(r.benefit, r.totalWeight)
           ELSE r.benefit,
           LAMBDA benefit :
             Score(benefit, config.lambda, FMul(config.costWeight, action.cost))))

\* a budget test that takes a maxCost of 0 for no budget
OverBudgetTruthy(action, maxCost) == Truthy(maxCost) /\ FGt(action.cost, maxCost)

\* maxCost !== undefined && action.cost > maxCost
OverBudget(action, maxCost) == maxCost # Undefined /\ FGt(action.cost, maxCost)

\* scoreActions: the loop over the actions, from action i on
RECURSIVE ScoreLoop(_, _, _, _, _)
ScoreLoop(actions, i, gap, maxCost, config) ==
    IF i > Len(actions) THEN <<>>
    ELSE IF OverBudget(actions[i], maxCost)
    THEN ScoreLoop(actions, i + 1, gap, maxCost, config)
    ELSE <<[action |-> actions[i], score |-> ActionScore(actions[i], gap, config)]>>
         \o ScoreLoop(actions, i + 1, gap, maxCost, config)

\* x put into a sequence sorted by falling score, after the entries that
\* score as much
RECURSIVE InsertByScore(_, _)
InsertByScore(sorted, x) ==
    IF sorted = <<>> THEN <<x>>
    ELSE IF FGt(x.score, Head(sorted).score) THEN <<x>> \o sorted
    ELSE <<Head(sorted)>> \o InsertByScore(Tail(sorted), x)

\* scores left in the order of the library
SortByScoreLeftOut(scores, sorted) == sorted \o scores

\* scores.sort((a, b) => b.score - a.score), a stable sort
RECURSIVE SortByScore(_, _)
SortByScore(scores, sorted) ==
    IF scores = <<>> THEN sorted
    ELSE SortByScore(Tail(scores), InsertByScore(sorted, Head(scores)))

\* InterventionPlanner.scoreActions
ScoreActions(actions, gap, maxCost, config) ==
    SortByScore(ScoreLoop(actions, 1, gap, maxCost, config), <<>>)

----------------------------------------------------------------------------
(* InterventionPlanner: plan and quickWin                                  *)

\* constraints of a plan call; a field that is absent is Undefined, and a
\* call without constraints has all three absent
Constraints(maxCost, maxDuration, excludeCategories) ==
    [maxCost |-> maxCost, maxDuration |-> maxDuration,
     excludeCategories |-> excludeCategories]

NoConstraints == Constraints(Undefined, Undefined, Undefined)

\* excludeCategories.includes(category)
Includes(list, x) == \E i \in 1..Len(list) : list[i] = x

\* plan: the two filters on the action library
AvailableActions(actions, constraints) ==
    Let1(IF constraints.excludeCategories # Undefined
         THEN SelectSeq(actions,
                LAMBDA a : ~Includes(constraints.excludeCategories, a.category))
         ELSE actions,
         LAMBDA kept :
           IF Truthy(constraints.maxDuration)
           THEN SelectSeq(kept,
                  LAMBDA a : FGe(constraints.maxDuration, a.duration))
           ELSE kept)

\* actionScores.filter(a => a.score > 0.1).slice(0, maxActions)
SelectActions(actionScores, maxActions) ==
    Let1(SelectSeq(actionScores, LAMBDA a : FGt(a.score, Lit(1, 10))), LAMBDA kept :
      SubSeq(kept, 1, Min(Len(kept), maxActions)))

\* an impact that leaves out the confidence of the effect
CalculateImpactOfMagnitude(action, dimensions) ==
    SeqFrom(LAMBDA d :
              [key |-> dimensions[d],
               value |->
                 IF \E j \in 1..Len(action.effects) :
                        action.effects[j].dimension = dimensions[d]
                 THEN action.effects[
                        CHOOSE j \in 1..Len(action.effects) :
                          action.effects[j].dimension = dimensions[d]].magnitude
                 ELSE Zero],
            1, Len(dimensions))

\* InterventionPlanner.calculateImpact
CalculateImpact(action, dimensions) ==
    SeqFrom(LAMBDA d :
              [key |-> dimensions[d],
               value |->
                 IF \E j \in 1..Len(action.effects) :
                        action.effects[j].dimension = dimensions[d]
                 THEN Let1(action.effects[
                             CHOOSE j \in 1..Len(action.effects) :
                               /\ action.effects[j].dimension = dimensions[d]
                               /\ \A h \in 1..(j - 1) :
                                      action.effects[h].dimension # dimensions[d]],
                           LAMBDA effect :
                             FMul(effect.magnitude, effect.confidence))
                 ELSE Zero],
            1, Len(dimensions))

\* predictedGap[dim] -= impact[dim] || 0, for every dimension
SubtractImpact(predictedGap, impact) ==
    SeqFrom(LAMBDA d :
              [key |-> predictedGap[d].key,
               value |-> FSub(predictedGap[d].value,
                              OrZero(ObjGet(impact, predictedGap[d].key)))],
            1, Len(predictedGap))

\* effects.reduce((best, e) => |e.magnitude| > |best.magnitude| ? e : best),
\* for a sequence of effects that is not empty
RECURSIVE MainEffectFrom(_, _, _)
MainEffectFrom(effects, i, best) ==
    IF i > Len(effects) THEN best
    ELSE MainEffectFrom(effects, i + 1,
           IF FGt(FAbs(effects[i].magnitude), FAbs(best.magnitude))
           THEN effects[i] ELSE best)

MainEffect(effects) == MainEffectFrom(effects, 2, effects[1])

\* what the explanation line of an action is built from: the action, the
\* dimension of its main effect, the sign prefix and the percentage
Explanation(action) ==
    Let1(MainEffect(action.effects), LAMBDA mainEffect :
      [action |-> action.id,
       dimension |-> mainEffect.dimension,
       prefix |-> IF FGt(mainEffect.magnitude, Zero) THEN "+" ELSE "",
       percent |-> NearestInt(FMul(mainEffect.magnitude, FromInt(100)))])

\* plan: the loop over the selected actions, from action i on
RECURSIVE PlanLoop(_, _, _, _, _, _)
PlanLoop(selectedActions, i, dimensions, predictedGap, plannedActions, explanations) ==
    IF i > Len(selectedActions)
    THEN [threw |-> FALSE, predictedGap |-> predictedGap,
          plannedActions |-> plannedActions, explanations |-> explanations]
    ELSE IF selectedActions[i].action.effects = <<>>
    THEN [threw |-> TRUE]
    ELSE Let1(CalculateImpact(selectedActions[i].action, dimensions), LAMBDA impact :
           PlanLoop(selectedActions, i + 1, dimensions,
                    SubtractImpact(predictedGap, impact),
                    Append(plannedActions,
                           [action |-> selectedActions[i].action,
                            weight |-> selectedActions[i].score,
                            priority |-> i,
                            expectedImpact |-> impact]),
                    Append(explanations, Explanation(selectedActions[i].action))))

\* values.reduce((a, b) => a + b, 0) from entry i on
RECURSIVE SumLoop(_, _, _)
SumLoop(values, i, sum) ==
    IF i > Len(values) THEN sum ELSE SumLoop(values, i + 1, FAdd(sum, values[i]))

\* Object.values(predictedGap).map(v => v * v).reduce((a, b) => a + b, 0)
SumOfSquares(gap) ==
    SumLoop(SeqFrom(LAMBDA d : Let1(gap[d].value, LAMBDA v : FMul(v, v)),
                    1, Len(gap)),
            1, Zero)

\* plannedActions.reduce((sum, a) => sum + a.action.cost, 0)
TotalCost(plannedActions) ==
    SumLoop([i \in 1..Len(plannedActions) |-> plannedActions[i].action.cost],
            1, Zero)

\* InterventionPlanner.plan; threw is TRUE when the call ends in a TypeError
Plan(config, currentState, targetState, constraints) ==
    Let1(CalculateGap(currentState, targetState), LAMBDA gap :
      Let1(SelectActions(
             ScoreActions(AvailableActions(config.actions, constraints), gap,
                          constraints.maxCost, config),
             config.maxActions),
           LAMBDA selectedActions :
             Let1(PlanLoop(selectedActions, 1, ObjKeys(gap), gap, <<>>, <<>>),
                  LAMBDA r :
                    IF r.threw THEN [threw |-> TRUE]
                    ELSE [threw |-> FALSE,
                          actions |-> r.plannedActions,
                          expectedGap |-> FSqrt(SumOfSquares(r.predictedGap)),
                          totalCost |-> TotalCost(r.plannedActions),
                          activeCount |-> Len(r.plannedActions),
                          explanation |-> r.explanations])))

\* a quick win that is the last action of the plan
QuickWinLast(config, currentState, targetState) ==
    Let1(Plan(config, currentState, targetState,
              Constraints(Lit(3, 10), FromInt(15), Undefined)),
         LAMBDA plan :
           IF plan.threw THEN plan
           ELSE IF plan.actions = <<>> THEN Null
           ELSE plan.actions[Len(plan.actions)])

\* InterventionPlanner.quickWin: plan.actions[0] || null
QuickWin(config, currentState, targetState) ==
    Let1(Plan(config, currentState, targetState,
              Constraints(Lit(3, 10), FromInt(15), Undefined)),
         LAMBDA plan :
           IF plan.threw THEN plan
           ELSE IF plan.actions = <<>> THEN Null
           ELSE plan.actions[1])

\* InterventionPlanner.buildCausalMatrix: for every action the map from a
\* dimension to magnitude * confidence of its last effect on it
BuildCausalMatrix(actions) ==
    [i \in 1..Len(actions) |->
       [id |-> actions[i].id,
        effects |->
          Let1(actions[i].effects, LAMBDA effects :
            Let1(AddKeys(<<>>, [j \in 1..Len(effects) |-> effects[j].dimension]),
                 LAMBDA dims :
                   SeqFrom(LAMBDA d :
                     Let1(effects[CHOOSE j \in 1..Len(effects) :
                                    /\ effects[j].dimension = dims[d]
                                    /\ \A h \in (j + 1)..Len(effects) :
                                           effects[h].dimension # dims[d]],
                          LAMBDA effect :
                            [key |-> dims[d],
                             value |-> FMul(effect.magnitude, effect.confidence)]),
                     1, Len(dims))))]]

\* InterventionPlanner constructor
NewPlanner(config) ==
    [config |-> config, causalMatrix |-> BuildCausalMatrix(config.actions)]

----------------------------------------------------------------------------
(* InterventionPlanner: the default library and config                     *)

Walk15Min ==
    Action("walk_15min", "activity", Lit(2, 10), FromInt(15),
           <<Effect("cardiovascular", Lit(3, 10), Lit(9, 10)),
             Effect("energy", Lit(2, 10), Lit(8, 10)),
             Effect("stress", Lit(-2, 10), Lit(7, 10))>>)

Hiit20Min ==
    Action("hiit_20min", "activity", Lit(6, 10), FromInt(20),
           <<Effect("cardiovascular", Lit(6, 10), Lit(9, 10)),
             Effect("metabolic", Lit(4, 10), Lit(8, 10)),
             Effect("stress", Lit(-3, 10), Lit(7, 10)),
             Effect("energy", Lit(-2, 10), Lit(6, 10))>>)

Stretch10Min ==
    Action("stretch_10min", "activity", Lit(1, 10), FromInt(10),
           <<Effect("stress", Lit(-2, 10), Lit(8, 10)),
             Effect("recovery", Lit(15, 100), Lit(7, 10))>>)

PowerNap ==
    Action("power_nap", "recovery", Lit(3, 10), FromInt(25),
           <<Effect("energy", Lit(4, 10), Lit(8, 10)),
             Effect("stress", Lit(-3, 10), Lit(7, 10)),
             Effect("recovery", Lit(2, 10), Lit(6, 10))>>)

Sleep8Hr ==
    Action("sleep_8hr", "recovery", Lit(1, 10), FromInt(480),
           <<Effect("energy", Lit(8, 10), Lit(9, 10)),
             Effect("recovery", Lit(9, 10), Lit(9, 10)),
             Effect("stress", Lit(-5, 10), Lit(8, 10)),
             Effect("cardiovascular", Lit(2, 10), Lit(7, 10))>>)

Breathwork5Min ==
    Action("breathwork_5min", "stress", Lit(5, 100), FromInt(5),
           <<Effect("stress", Lit(-3, 10), Lit(9, 10)),
             Effect("cardiovascular", Lit(-1, 10), Lit(8, 10))>>)

Meditation10Min ==
    Action("meditation_10min", "stress", Lit(15, 100), FromInt(10),
           <<Effect("stress", Lit(-4, 10), Lit(85, 100)),
             Effect("energy", Lit(1, 10), Lit(6, 10))>>)

ColdShower ==
    Action("cold_shower", "stress", Lit(4, 10), FromInt(5),
           <<Effect("energy", Lit(5, 10), Lit(8, 10)),
             Effect("stress", Lit(-2, 10), Lit(7, 10)),
             Effect("recovery", Lit(1, 10), Lit(6, 10))>>)

Hydrate ==
    Action("hydrate", "nutrition", Lit(2, 100), FromInt(1),
           <<Effect("energy", Lit(1, 10), Lit(7, 10)),
             Effect("metabolic", Lit(5, 100), Lit(6, 10))>>)

HealthyMeal ==
    Action("healthy_meal", "nutrition", Lit(2, 10), FromInt(30),
           <<Effect("energy", Lit(3, 10), Lit(8, 10)),
             Effect("metabolic", Lit(2, 10), Lit(7, 10))>>)

SocialCall ==
    Action("social_call", "social", Lit(15, 100), FromInt(15),
           <<Effect("stress", Lit(-25, 100), Lit(7, 10)),
             Effect("energy", Lit(15, 100), Lit(6, 10))>>)

DigitalDetox1Hr ==
    Action("digital_detox_1hr", "digital", Lit(3, 10), FromInt(60),
           <<Effect("stress", Lit(-2, 10), Lit(7, 10)),
             Effect("energy", Lit(1, 10), Lit(5, 10))>>)

\* DEFAULT_ACTIONS
DefaultActions ==
    <<Walk15Min, Hiit20Min, Stretch10Min, PowerNap, Sleep8Hr, Breathwork5Min,
      Meditation10Min, ColdShower, Hydrate, HealthyMeal, SocialCall,
      DigitalDetox1Hr>>

\* DEFAULT_PLANNER_CONFIG
DefaultPlannerConfig ==
    [lambda |-> Lit(1, 10), maxActions |-> 5, costWeight |-> Lit(3, 10),
     actions |-> DefaultActions]

\* { ...DEFAULT_PLANNER_CONFIG, ...config } for a config that sets these
WithConfig(lambda, maxActions, actions) ==
    [DefaultPlannerConfig EXCEPT !.lambda = lambda, !.maxActions = maxActions,
                                 !.actions = actions]

----------------------------------------------------------------------------
(* State                                                                   *)

VARIABLES
    calc,   \* a SurpriseCalculator used on its own
    ck,     \* its thresholdK
    cres,   \* the SurpriseResult of its last calculate call (Null: none yet)
    cin,    \* the inputs it was fed: how many, the first, the last, and
            \* whether all before the last were equal to the first
    cvals,  \* the inputs it was fed, in order
    cfgv,   \* the FilterConfig of the SurpriseFilter
    flt,    \* the SurpriseFilter: calculators and sampleCount
    pre,    \* the SurpriseFilter before its last operation
    op,     \* its last operation
    arg,    \* that operation's argument
    out,    \* what that operation returned
    est,    \* the HealthStateEstimator: cells and lastUpdateTime
    eref,   \* an estimator that gets the same update and reset calls as est
            \* and none of its predict and getCurrentState calls
    epre,   \* est before its last operation
    eop,    \* the last operation on est
    eprev,  \* the operation before that one
    earg,   \* the timestamp given to the last operation (Null: none)
    eout,   \* what the last operation returned
    eupd,   \* what the last update returned (Null: none yet)
    en,     \* the number of update calls so far
    eupds,  \* the update calls since construction or the last reset, in
            \* order: <<observations, timestamp>> each
    ein,    \* the observations and timestamps the estimator is called with
    planner, \* the InterventionPlanner: config and causalMatrix
    pop,    \* the last operation on the planner
    pargs,  \* its arguments: currentState, targetState and constraints
    pout,   \* what it returned
    pn,     \* the number of planner calls so far
    ccfg,   \* the CfCConfig of a CfCCell used on its own
    cfc,    \* that CfCCell: state, tau, equilibrium and lastTimestamp
    cpre,   \* the cell before its last operation
    cop,    \* its last operation
    carg,   \* that operation's arguments (Null: none)
    cout,   \* the vector that operation returned (Null: none)
    cdt,    \* the dt the last step used (Null: the last operation was no step)
    csteps  \* the step calls since construction or the last reset, in
            \* order: [observation, timestamp] each

calcVars == <<calc, ck, cres, cin, cvals>>
filterVars == <<cfgv, flt, pre, op, arg, out>>
estVars == <<est, eref, epre, eop, eprev, earg, eout, eupd, en, eupds, ein>>

planVars == <<planner, pop, pargs, pout, pn>>

cellVars == <<ccfg, cfc, cpre, cop, carg, cout, cdt, csteps>>

vars == <<calcVars, filterVars, estVars, planVars, cellVars>>

----------------------------------------------------------------------------
(* A SurpriseCalculator fed a sequence of values                           *)

\* Sequences of any shape are fed up to MaxFree calls; a constant run is
\* fed up to MaxRun calls and may end in one value that differs.
MaxFree == 4
MaxRun == 20

CalcValues == {FromInt(0), Lit(1, 10), FromInt(70), FromInt(150)}
CalcKs == {FromInt(1), FromInt(2)}

CalcConstant == cin.n > 0 /\ cin.constPrefix /\ cin.last = cin.first

CalcInit(ks) ==
    /\ calc = NewCalculator
    /\ ck \in ks
    /\ cres = Null
    /\ cin = [n |-> 0, first |-> Null, last |-> Null, constPrefix |-> TRUE]
    /\ cvals = <<>>

\* calculator.calculate(v)
CalcCalculate(v) ==
    /\ cin.n < MaxFree \/ (cin.n < MaxRun /\ CalcConstant)
    /\ \E r \in {Calculate(calc, ck, v)} :
          /\ calc' = r.calc
          /\ cres' = r.result
    /\ cin' = [n |-> cin.n + 1,
               first |-> IF cin.n = 0 THEN v ELSE cin.first,
               last |-> v,
               constPrefix |-> cin.n = 0 \/ CalcConstant]
    /\ cvals' = Append(cvals, v)
    /\ UNCHANGED <<ck, filterVars, estVars, planVars, cellVars>>

CalcNext == \E v \in CalcValues : CalcCalculate(v)

----------------------------------------------------------------------------
(* A SurpriseFilter fed records, batches and resets                        *)

\* the filter sees at most MaxSamples records between two resets, batches
\* hold at most MaxBatch records, and minSamples is at most MaxMinSamples
MaxSamples == 4
MaxBatch == 2
MaxMinSamples == 3

Records ==
    { Record("heart_rate", FromInt(70), Undefined, Undefined),
      Record("heart_rate", FromInt(150), Undefined, Undefined),
      Record("heart_rate", Undefined, Undefined, Undefined),
      Record("sleep", Undefined, FromInt(480), Undefined),
      Record("body_temperature", FromInt(37), Undefined, Undefined) }

\* the records batches are made of
BatchRecords ==
    { Record("heart_rate", FromInt(70), Undefined, Undefined),
      Record("heart_rate", FromInt(150), Undefined, Undefined),
      Record("body_temperature", FromInt(37), Undefined, Undefined) }

Batches == UNION {[1..n -> BatchRecords] : n \in 0..MaxBatch}

FilterConfigs ==
    [thresholdK : {FromInt(2)},
     minSamples : 0..MaxMinSamples,
     metrics : {DefaultMetrics, {"sleep"}}]

FilterInit(cfgs) ==
    /\ cfgv \in cfgs
    /\ flt = NewFilter(cfgv)
    /\ pre = flt
    /\ op = "new"
    /\ arg = Null
    /\ out = Null

\* filter.filter(record)
DoFilter(record) ==
    /\ flt.sampleCount < MaxSamples
    /\ \E r \in {FilterStep(flt, cfgv, record)} :
          /\ flt' = r.flt
          /\ out' = r.result
    /\ pre' = flt
    /\ op' = "filter"
    /\ arg' = record
    /\ UNCHANGED <<cfgv, calcVars, estVars, planVars, cellVars>>

\* filter.filterBatch(records)
DoFilterBatch(records) ==
    /\ flt.sampleCount + Len(records) <= MaxSamples
    /\ \E r \in {FilterBatch(flt, cfgv, records)} :
          /\ flt' = r.flt
          /\ out' = r.result
    /\ pre' = flt
    /\ op' = "filterBatch"
    /\ arg' = records
    /\ UNCHANGED <<cfgv, calcVars, estVars, planVars, cellVars>>

\* filter.reset()
DoReset ==
    /\ flt' = FilterReset(flt, cfgv)
    /\ pre' = flt
    /\ op' = "reset"
    /\ arg' = Null
    /\ out' = Null
    /\ UNCHANGED <<cfgv, calcVars, estVars, planVars, cellVars>>

FilterNext ==
    \/ \E record \in Records : DoFilter(record)
    \/ \E records \in Batches : DoFilterBatch(records)
    \/ DoReset

----------------------------------------------------------------------------
(* A HealthStateEstimator given updates, predictions and resets            *)

\* the estimator gets at most MaxUpdates update calls
MaxUpdates == 2

\* two of the dimensions of DEFAULT_HEALTH_STATE_CONFIG
EstConfig ==
    [dimensions |->
       << [name |-> "cardiovascular", tauMin |-> FromInt(60), tauMax |-> FromInt(3600)],
          [name |-> "stress", tauMin |-> FromInt(60), tauMax |-> FromInt(7200)] >>]

\* timestamps; calls need not come in time order
Times == {FromInt(0), FromInt(1000), FromInt(1000000)}

\* observations: a value for every dimension, and for one only
Observations ==
    { [n \in {"cardiovascular", "stress"} |->
         IF n = "stress" THEN Lit(1, 2) ELSE FromInt(70)],
      [n \in {"cardiovascular"} |-> FromInt(150)] }

EstInit(inputs) ==
    /\ ein = inputs
    /\ eupds = <<>>
    /\ est = NewEstimator(EstConfig)
    /\ eref = est
    /\ epre = est
    /\ eop = "new"
    /\ eprev = "new"
    /\ earg = Null
    /\ eout = Null
    /\ eupd = Null
    /\ en = 0

\* the calls of the general runs
EstInputs == [observations |-> Observations, times |-> Times]

\* the calls of scenario C and around it: cardiovascular 1.0, or stress 0.5
\* only, at the times 0, 1 and 1000000
ScenarioInputs ==
    [observations |-> { [n \in {"cardiovascular"} |-> FromInt(1)],
                        [n \in {"stress"} |-> Lit(1, 2)] },
     times |-> {FromInt(0), FromInt(1), FromInt(1000000)}]

\* estimator.update(observations, timestamp)
DoUpdate(observations, timestamp) ==
    /\ en < MaxUpdates
    /\ \E r \in {EstUpdate(est, EstConfig, observations, timestamp)} :
          /\ est' = r.est
          /\ eout' = r.result
          /\ eupd' = r.result
          /\ eref' = IF eref = est THEN r.est
                     ELSE EstUpdate(eref, EstConfig, observations, timestamp).est
    /\ epre' = est
    /\ eprev' = eop
    /\ eop' = "update"
    /\ earg' = timestamp
    /\ en' = en + 1
    /\ eupds' = Append(eupds, <<observations, timestamp>>)
    /\ UNCHANGED <<ein, calcVars, filterVars, planVars, cellVars>>

\* estimator.predict(futureTimestamp)
DoPredict(futureTimestamp) ==
    /\ \E r \in {EstPredict(est, EstConfig, futureTimestamp)} :
          /\ est' = r.est
          /\ eout' = r.result
    /\ epre' = est
    /\ eprev' = eop
    /\ eop' = "predict"
    /\ earg' = futureTimestamp
    /\ UNCHANGED <<eref, eupd, en, eupds, ein, calcVars, filterVars, planVars, cellVars>>

\* estimator.getCurrentState()
DoGetCurrentState ==
    /\ \E r \in {EstGetCurrentState(est, EstConfig)} :
          /\ est' = r.est
          /\ eout' = r.result
    /\ epre' = est
    /\ eprev' = eop
    /\ eop' = "getCurrentState"
    /\ earg' = Null
    /\ UNCHANGED <<eref, eupd, en, eupds, ein, calcVars, filterVars, planVars, cellVars>>

\* estimator.reset()
DoEstReset ==
    /\ est' = EstReset(est, EstConfig)
    /\ eref' = EstReset(eref, EstConfig)
    /\ epre' = est
    /\ eprev' = eop
    /\ eop' = "reset"
    /\ earg' = Null
    /\ eout' = Null
    /\ eupds' = <<>>
    /\ UNCHANGED <<eupd, en, ein, calcVars, filterVars, planVars, cellVars>>

EstNext ==
    \/ \E observations \in ein.observations, timestamp \in ein.times :
          DoUpdate(observations, timestamp)
    \/ \E futureTimestamp \in ein.times : DoPredict(futureTimestamp)
    \/ DoGetCurrentState
    \/ DoEstReset

----------------------------------------------------------------------------
(* An InterventionPlanner and the calls made on it                         *)

\* The planner is called up to MaxPlans times.
MaxPlans == 1

\* an action without effects
Rest == Action("rest", "recovery", Zero, FromInt(5), <<>>)

ActionLibraries == {DefaultActions, <<>>, <<Rest, Breathwork5Min, Sleep8Hr>>}

Lambdas == {Zero, Lit(1, 10), Lit(2, 10)}

PlannerConfigs ==
    {WithConfig(lambda, maxActions, actions) :
       lambda \in Lambdas, maxActions \in {1, 5}, actions \in ActionLibraries}

\* (current, target) pairs: scenario D, states with keys the other one
\* lacks, a state that is its own target, and a pair with a small gap on
\* one dimension and a large one on the other
StatePairs ==
    {<< <<[key |-> "stress", value |-> Lit(9, 10)],
          [key |-> "energy", value |-> Lit(2, 10)]>>,
        <<[key |-> "stress", value |-> Lit(2, 10)],
          [key |-> "energy", value |-> Lit(8, 10)]>> >>,
     << <<[key |-> "stress", value |-> Lit(9, 10)],
          [key |-> "sleep", value |-> Lit(5, 10)]>>,
        <<[key |-> "energy", value |-> Lit(8, 10)]>> >>,
     << <<[key |-> "energy", value |-> Lit(5, 10)]>>,
        <<[key |-> "energy", value |-> Lit(5, 10)]>> >>,
     << <<[key |-> "stress", value |-> Lit(3, 10)],
          [key |-> "energy", value |-> Lit(1, 10)]>>,
        <<[key |-> "stress", value |-> Lit(2, 10)],
          [key |-> "energy", value |-> Lit(9, 10)]>> >>}

AllCategories ==
    <<"activity", "recovery", "stress", "nutrition", "social", "digital">>

ConstraintSets ==
    {NoConstraints,
     Constraints(Zero, Undefined, Undefined),
     Constraints(Lit(15, 100), Undefined, Undefined),
     Constraints(Undefined, Zero, Undefined),
     Constraints(Undefined, FromInt(10), Undefined),
     Constraints(Undefined, Undefined, <<>>),
     Constraints(Undefined, Undefined, <<"stress", "recovery">>),
     Constraints(Undefined, Undefined, AllCategories)}

PlanInit(configs) ==
    /\ planner \in {NewPlanner(config) : config \in configs}
    /\ pop = "new"
    /\ pargs = Null
    /\ pout = Null
    /\ pn = 0

\* planner.plan(currentState, targetState, constraints)
DoPlan(currentState, targetState, constraints) ==
    /\ pn < MaxPlans
    /\ pop' = "plan"
    /\ pargs' = [currentState |-> currentState, targetState |-> targetState,
                 constraints |-> constraints]
    /\ pout' = Plan(planner.config, currentState, targetState, constraints)
    /\ pn' = pn + 1
    /\ UNCHANGED <<planner, calcVars, filterVars, estVars, cellVars>>

\* planner.quickWin(currentState, targetState)
DoQuickWin(currentState, targetState) ==
    /\ pn < MaxPlans
    /\ pop' = "quickWin"
    /\ pargs' = [currentState |-> currentState, targetState |-> targetState,
                 constraints |-> Null]
    /\ pout' = QuickWin(planner.config, currentState, targetState)
    /\ pn' = pn + 1
    /\ UNCHANGED <<planner, calcVars, filterVars, estVars, cellVars>>

PlanNext ==
    \/ \E pair \in StatePairs, constraints \in ConstraintSets :
          DoPlan(pair[1], pair[2], constraints)
    \/ \E pair \in StatePairs : DoQuickWin(pair[1], pair[2])

----------------------------------------------------------------------------
(* A CfCCell and the calls made on it                                      *)

\* Sequences of steps of any shape are made up to MaxCellFree calls; a run
\* of steps with one observation and timestamps a fixed gap apart is made up
\* to MaxCellRun calls.
MaxCellFree == 2
MaxCellRun == 30

\* the configs given to the constructor: only stateDim (tau bounds by
\* default), the bounds of the estimator's cardiovascular dimension, bounds
\* that coincide, and a tauMax that is the default tauMin (tau stays there)
CellConfigs ==
    { [stateDim |-> 2],
      [stateDim |-> 2, tauMin |-> FromInt(60), tauMax |-> FromInt(3600)],
      [stateDim |-> 2, tauMin |-> Lit(3, 10), tauMax |-> Lit(3, 10)],
      [stateDim |-> 2, tauMax |-> Lit(5, 100)] }

\* observations: as long as the state, and shorter and negative
CellObservations == { <<FromInt(150), Lit(1, 2)>>, <<FNeg(FromInt(3))>> }

\* the gaps between the timestamps of a run
RunGaps == {Zero, FromInt(4096)}

\* the steps so far, followed by step(observation, timestamp), are a run
CellRun(observation, timestamp) ==
    /\ csteps # <<>>
    /\ \A k \in 1..Len(csteps) : csteps[k].observation = observation
    /\ \E gap \in RunGaps :
          /\ timestamp = FAdd(csteps[Len(csteps)].timestamp, gap)
          /\ \A k \in 2..Len(csteps) :
                csteps[k].timestamp = FAdd(csteps[k - 1].timestamp, gap)

\* the timestamps a step may be given: calls need not come in time order
CellTimes ==
    Times \cup (IF cfc.lastTimestamp = Null THEN {}
                ELSE {FAdd(cfc.lastTimestamp, gap) : gap \in RunGaps})

\* the timestamps a predict may be given: near and far
PredictTimes == {FromInt(1000), FromInt(1000000)}

CellInit(configs) ==
    /\ ccfg \in {MergeCfCConfig(config) : config \in configs}
    /\ cfc = NewCell(ccfg)
    /\ cpre = cfc
    /\ cop = "new"
    /\ carg = Null
    /\ cout = Null
    /\ cdt = Null
    /\ csteps = <<>>

\* cell.step(observation, timestamp)
DoCellStep(observation, timestamp) ==
    /\ \/ Len(csteps) < MaxCellFree /\ timestamp \in Times
       \/ Len(csteps) < MaxCellRun /\ CellRun(observation, timestamp)
    /\ cpre' = cfc
    /\ cop' = "step"
    /\ carg' = [observation |-> observation, timestamp |-> timestamp]
    /\ cdt' = StepDt(cfc, timestamp)
    /\ \E r \in {CellStep(cfc, ccfg, observation, timestamp)} :
          cfc' = r /\ cout' = r.state
    /\ csteps' = Append(csteps, [observation |-> observation, timestamp |-> timestamp])
    /\ UNCHANGED <<ccfg, calcVars, filterVars, estVars, planVars>>

\* cell.predict(futureTimestamp)
DoCellPredict(futureTimestamp) ==
    /\ cpre' = cfc
    /\ cop' = "predict"
    /\ carg' = [observation |-> Null, timestamp |-> futureTimestamp]
    /\ cdt' = Null
    /\ \E r \in {CellPredict(cfc, ccfg, futureTimestamp)} :
          cfc' = r.cell /\ cout' = r.result
    /\ UNCHANGED <<ccfg, csteps, calcVars, filterVars, estVars, planVars>>

\* cell.reset(), of a cell with a short history
DoCellReset ==
    /\ Len(csteps) <= MaxCellFree
    /\ cpre' = cfc
    /\ cop' = "reset"
    /\ carg' = Null
    /\ cout' = Null
    /\ cdt' = Null
    /\ cfc' = CellReset(cfc, ccfg)
    /\ csteps' = <<>>
    /\ UNCHANGED <<ccfg, calcVars, filterVars, estVars, planVars>>

CellNext ==
    \/ \E observation \in CellObservations, timestamp \in CellTimes :
          DoCellStep(observation, timestamp)
    \/ \E futureTimestamp \in PredictTimes : DoCellPredict(futureTimestamp)
    \/ DoCellReset

----------------------------------------------------------------------------
(* Specifications                                                          *)

DefaultFilterConfig ==
    [thresholdK |-> FromInt(2), minSamples |-> 10, metrics |-> DefaultMetrics]

\* a SurpriseCalculator on its own
InitCalc ==
    CalcInit(CalcKs) /\ FilterInit({DefaultFilterConfig}) /\ EstInit(EstInputs)
    /\ PlanInit({DefaultPlannerConfig}) /\ CellInit({DefaultCfCConfig})
NextCalc == CalcNext
SpecCalc == InitCalc /\ [][NextCalc]_vars

\* a SurpriseFilter
InitFilter ==
    CalcInit({FromInt(2)}) /\ FilterInit(FilterConfigs) /\ EstInit(EstInputs)
    /\ PlanInit({DefaultPlannerConfig}) /\ CellInit({DefaultCfCConfig})
NextFilter == FilterNext
SpecFilter == InitFilter /\ [][NextFilter]_vars

\* a HealthStateEstimator
InitEst ==
    CalcInit({FromInt(2)}) /\ FilterInit({DefaultFilterConfig}) /\ EstInit(EstInputs)
    /\ PlanInit({DefaultPlannerConfig}) /\ CellInit({DefaultCfCConfig})
NextEst == EstNext
SpecEst == InitEst /\ [][NextEst]_vars

\* a HealthStateEstimator called with the inputs of scenario C
InitScenario ==
    CalcInit({FromInt(2)}) /\ FilterInit({DefaultFilterConfig}) /\ EstInit(ScenarioInputs)
    /\ PlanInit({DefaultPlannerConfig}) /\ CellInit({DefaultCfCConfig})
NextScenario == EstNext
SpecScenario == InitScenario /\ [][NextScenario]_vars

\* an InterventionPlanner
InitPlan ==
    CalcInit({FromInt(2)}) /\ FilterInit({DefaultFilterConfig}) /\ EstInit(EstInputs)
    /\ PlanInit(PlannerConfigs) /\ CellInit({DefaultCfCConfig})
NextPlan == PlanNext
SpecPlan == InitPlan /\ [][NextPlan]_vars

\* a CfCCell
InitCell ==
    CalcInit({FromInt(2)}) /\ FilterInit({DefaultFilterConfig}) /\ EstInit(EstInputs)
    /\ PlanInit({DefaultPlannerConfig}) /\ CellInit(CellConfigs)
NextCell == CellNext
SpecCell == InitCell /\ [][NextCell]_vars

----------------------------------------------------------------------------
(* Claims about SurpriseFilter                                             *)

WarmupResult ==
    [keep |-> TRUE, totalSurprise |-> Zero, metricSurprises |-> EmptyMap,
     reason |-> "warmup"]

UnsupportedResult ==
    [keep |-> TRUE, totalSurprise |-> Zero, metricSurprises |-> EmptyMap,
     reason |-> "unsupported_type"]

SupportedTypes ==
    {"heart_rate", "steps", "calories", "sleep", "weight", "blood_pressure",
     "blood_oxygen"}

\* C1: a filter call whose incremented sample counter is below minSamples
\* returns keep=true, reason 'warmup', totalSurprise 0 and no metric
\* surprises, whatever the record, and changes nothing but the counter.
TheoremC1 ==
    (op = "filter" /\ pre.sampleCount + 1 < cfgv.minSamples) =>
        /\ out = WarmupResult
        /\ flt.calculators = pre.calculators
        /\ flt.sampleCount = pre.sampleCount + 1

\* a second warmup call, on a record a calculator could have been fed with
WitnessC1 ==
    /\ op = "filter" /\ pre.sampleCount + 1 < cfgv.minSamples
    /\ pre.sampleCount = 1
    /\ arg.type = "heart_rate" /\ IsNum(arg.value)
    /\ out.reason = "warmup"

\* C2: after warmup, a record of a type outside the seven supported types
\* is kept with reason 'unsupported_type' and totalSurprise 0; no calculator
\* is created for it and none is changed.
TheoremC2 ==
    (/\ op = "filter" /\ pre.sampleCount + 1 >= cfgv.minSamples
     /\ arg.type \notin SupportedTypes) =>
        /\ out = UnsupportedResult
        /\ flt.calculators = pre.calculators
        /\ arg.type \notin DOMAIN flt.calculators

\* an unsupported record that carries a value, filtered after a supported
\* record has given a calculator some history
WitnessC2 ==
    /\ op = "filter" /\ pre.sampleCount + 1 >= cfgv.minSamples
    /\ arg.type = "body_temperature" /\ IsNum(arg.value)
    /\ "heart_rate" \in DOMAIN pre.calculators
    /\ pre.calculators["heart_rate"].stats.count > 0
    /\ out.reason = "unsupported_type"

\* the scalar of the record cannot be extracted: it is not a number
NoScalar(record) == ~IsNum(ExtractValue(record))

\* C3: every record whose scalar cannot be extracted is kept, and no
\* calculator is fed a value that is not a number; this includes a record
\* of a supported type that lacks its scalar field.
CounterC3 ==
    (op = "filter" /\ NoScalar(arg)) =>
        /\ out.keep
        /\ flt.calculators = pre.calculators

\* what calling filter on each record of rs in turn gives: the final filter
\* and the results in order
RECURSIVE OneByOne(_, _, _)
OneByOne(f, cfg, rs) ==
    IF rs = <<>> THEN [flt |-> f, results |-> <<>>]
    ELSE Let1(FilterStep(f, cfg, Head(rs)), LAMBDA h :
           Let1(OneByOne(h.flt, cfg, Tail(rs)), LAMBDA t :
             [flt |-> t.flt, results |-> <<h.result>> \o t.results]))

\* the records of rs whose result has keep = b, in order
RECURSIVE Picked(_, _, _)
Picked(rs, results, b) ==
    IF rs = <<>> THEN <<>>
    ELSE IF Head(results).keep = b
         THEN <<Head(rs)>> \o Picked(Tail(rs), Tail(results), b)
         ELSE Picked(Tail(rs), Tail(results), b)

\* the totalSurprise values added up in order, from 0
RECURSIVE SumSurprise(_, _)
SumSurprise(results, acc) ==
    IF results = <<>> THEN acc
    ELSE Let1(FAdd(acc, Head(results).totalSurprise), LAMBDA a :
           SumSurprise(Tail(results), a))

BatchAgrees(ref) ==
    /\ flt = ref.flt
    /\ out.kept = Picked(arg, ref.results, TRUE)
    /\ out.dropped = Picked(arg, ref.results, FALSE)
    /\ out.stats.total = Len(arg)
    /\ out.stats.kept = Len(out.kept)
    /\ out.stats.dropped = Len(out.dropped)
    /\ out.stats.kept + out.stats.dropped = out.stats.total
    /\ out.stats.filterRate =
         IF Len(arg) = 0 THEN Zero
         ELSE FDiv(FromInt(Len(out.dropped)), FromInt(Len(arg)))
    /\ out.stats.avgSurprise =
         IF Len(arg) = 0 THEN Zero
         ELSE FDiv(SumSurprise(ref.results, Zero), FromInt(Len(arg)))

\* C4: filterBatch(rs) decides each record and leaves the filter as calling
\* filter on each record of rs in input order does; kept and dropped are
\* the in-order subsequences, and the stats are total, kept + dropped =
\* total, filterRate = dropped/total, avgSurprise = sum/total, both 0 when
\* rs is empty.
TheoremC4 ==
    op = "filterBatch" => \E ref \in {OneByOne(pre, cfgv, arg)} : BatchAgrees(ref)

\* a batch that crosses the end of the warmup and has a kept and a dropped
\* record
WitnessC4 ==
    /\ op = "filterBatch" /\ Len(arg) = 2
    /\ pre.sampleCount + 1 < cfgv.minSamples
    /\ Len(out.kept) = 1 /\ Len(out.dropped) = 1

\* C5: after reset() the filter is the filter a constructor call with the
\* same config gives: counter 0, no lazily created calculators, a fresh
\* calculator per configured metric.
TheoremC5 == op = "reset" => flt = NewFilter(cfgv)

\* a reset of a filter that is past its warmup and holds a lazily created
\* calculator with history
WitnessC5 ==
    /\ op = "reset"
    /\ pre.sampleCount > cfgv.minSamples
    /\ DOMAIN pre.calculators # cfgv.metrics
    /\ \E t \in DOMAIN pre.calculators : pre.calculators[t].stats.count > 0

----------------------------------------------------------------------------
(* Claims about SurpriseCalculator                                         *)

\* C6: a fresh calculator fed a constant sequence of any value and length
\* answers every call with surprise 0, threshold 0 and keep=false, its
\* prediction being the constant itself from the second call on.
CounterC6 ==
    CalcConstant =>
        /\ ~cres.keep
        /\ cres.surprise = Zero
        /\ cres.threshold = Zero
        /\ cin.n > 1 => cres.prediction = cin.first

\* C7: with the default alpha 0.3 and thresholdK 2.0, 19 observations of
\* 70 followed by 150 give keep=true on the 20th call.
TheoremC7 ==
    (/\ cin.n = 20 /\ cin.constPrefix
     /\ cin.first = FromInt(70) /\ cin.last = FromInt(150)
     /\ ck = FromInt(2)) => cres.keep

WitnessC7 ==
    /\ cin.n = 20 /\ cin.constPrefix
    /\ cin.first = FromInt(70) /\ cin.last = FromInt(150)
    /\ ck = FromInt(2)
    /\ cres.keep /\ FGt(cres.surprise, cres.threshold)

\* C8: every SurpriseResult has surprise >= 0 and threshold >= 0, its
\* threshold is the calculator's threshold as updated by this call, keep is
\* (surprise > threshold), and prediction is none exactly on the first call.
TheoremC8 ==
    cin.n > 0 =>
        /\ FGe(cres.surprise, Zero)
        /\ FGe(cres.threshold, Zero)
        /\ cres.threshold = ThresholdGet(calc.threshold, ck)
        /\ cres.keep <=> FGt(cres.surprise, cres.threshold)
        /\ (cres.prediction = Null) <=> (cin.n = 1)

\* a call whose surprise exceeds the threshold and a call whose does not,
\* both after the threshold has been moved by earlier surprises
WitnessC8 ==
    /\ cin.n > 2 /\ ~CalcConstant
    /\ cres.keep
    /\ FGt(cres.threshold, Zero)

\* |x - y| is at most a hundredth of the larger of 1 and |y|
About(x, y) ==
    FGe(FMul(Lit(1, 100), FMax(One, FAbs(y))), FAbs(FSub(x, y)))

\* the arithmetic mean of a sequence of values that is not empty
MeanOf(values) == FDiv(SumLoop(values, 1, Zero), FromInt(Len(values)))

\* the unbiased sample variance of two or more values, in two passes
SampleVarianceOf(values) ==
    Let1(MeanOf(values), LAMBDA mean :
      FDiv(SumLoop(SeqFrom(LAMBDA i : Let1(FSub(values[i], mean),
                                           LAMBDA d : FMul(d, d)),
                           1, Len(values)),
                   1, Zero),
           FromInt(Len(values) - 1)))

\* C23: after N values fed to OnlineStats.update, getCount() is N, getMean()
\* is the arithmetic mean of the values and getVariance() is their unbiased
\* sample variance as a two-pass computation gives it, and 0 when N <= 1.
TheoremC23 ==
    /\ calc.stats.count = Len(cvals)
    /\ Len(cvals) <= 1 => StatsVariance(calc.stats) = Zero
    /\ Len(cvals) >= 1 => About(calc.stats.mean, MeanOf(cvals))
    /\ Len(cvals) >= 2 => About(StatsVariance(calc.stats), SampleVarianceOf(cvals))

WitnessC23 ==
    /\ Len(cvals) = 4
    /\ cvals[1] # cvals[2] /\ cvals[2] # cvals[3] /\ cvals[3] # cvals[4]
    /\ FGt(StatsVariance(calc.stats), FromInt(1000))
    /\ FGt(calc.stats.mean, FromInt(50))

\* the prediction error of the last call
LastError ==
    IF cres.prediction = Null THEN Zero ELSE FAbs(FSub(cin.last, cres.prediction))

\* C24: in every calculate call zscore = (error - errorStats.mean) /
\* max(errorStats.stdDev, 1) on the error statistics that include this
\* call's error; the divisor is 1 whenever 0 <= stdDev < 1.
CounterC24 ==
    cin.n > 0 =>
      cres.zscore = FDiv(FSub(LastError, calc.errorStats.mean),
                         FMax(StatsStdDev(calc.errorStats), One))

\* the filter held no calculator for the type before the call, or one that
\* was never called
NoHistory(type) ==
    type \notin DOMAIN pre.calculators \/ pre.calculators[type].stats.count = 0

\* C29: the first calculate call on a calculator returns prediction none,
\* surprise 0, threshold 0 and keep=false; so after warmup the first record
\* of a supported type that filter routes to a calculator without history
\* comes back with keep=false and reason 'expected', whatever its value.
TheoremC29 ==
    (/\ op = "filter" /\ pre.sampleCount + 1 >= cfgv.minSamples
     /\ arg.type \in SupportedTypes /\ ExtractValue(arg) # Null
     /\ NoHistory(arg.type)) =>
        /\ ~out.keep
        /\ out.reason = "expected"
        /\ out.totalSurprise = Zero
        /\ out.metricSurprises[arg.type].prediction = Null
        /\ out.metricSurprises[arg.type].surprise = Zero
        /\ out.metricSurprises[arg.type].threshold = Zero
        /\ ~out.metricSurprises[arg.type].keep
        /\ flt.calculators[arg.type].stats.count = 1

\* the first record of a type whose calculator is created by this call,
\* after another type's calculator has got history
WitnessC29 ==
    /\ op = "filter" /\ pre.sampleCount + 1 >= cfgv.minSamples
    /\ arg.type = "sleep" /\ arg.duration = FromInt(480)
    /\ "sleep" \notin DOMAIN pre.calculators
    /\ "heart_rate" \in DOMAIN pre.calculators
    /\ pre.calculators["heart_rate"].stats.count > 0
    /\ out.reason = "expected"

----------------------------------------------------------------------------
(* Claims about CfCCell and HealthStateEstimator                           *)

\* C9: predict and getCurrentState are pure reads: they leave every cell's
\* state, tau, equilibrium and lastTimestamp and the estimator's
\* lastUpdateTime unchanged, so an estimator that was also asked for
\* predictions between its updates is the estimator that was not.
TheoremC9 ==
    /\ eop \in {"predict", "getCurrentState"} => est = epre
    /\ est = eref

\* a prediction for a later time, made of an estimator whose cells hold
\* state, that differs from what the last update returned
WitnessC9 ==
    /\ eop = "predict" /\ en > 0
    /\ epre.lastUpdateTime # Null /\ FGt(earg, epre.lastUpdateTime)
    /\ eout.dimensions # eupd.dimensions
    /\ eout.dimensions["cardiovascular"] # Zero

ReturnedState == eop \in {"update", "predict", "getCurrentState"} /\ eout # Null

\* 0 <= x <= 1
InUnit(x) == FGe(x, Zero) /\ FGe(One, x)

\* C11: every HealthState returned by update, predict or getCurrentState,
\* for any futureTimestamp (one before the last update included), has every
\* confidence in [0,1] and timeSinceUpdate >= 0.
CounterC11 ==
    ReturnedState =>
        /\ \A n \in DimNames(EstConfig) : InUnit(eout.confidence[n])
        /\ FGe(eout.timeSinceUpdate, Zero)

\* the time the last predict or getCurrentState predicted for
PredictedTime == IF eop = "predict" THEN earg ELSE epre.lastUpdateTime

\* C12: once update has been called with any timestamp (0 included),
\* predict(f) reports timeSinceUpdate = f - lastUpdateTime and computes every
\* confidence as exp(-(f - lastUpdateTime) / avgTau); getCurrentState()
\* reports timeSinceUpdate = 0.
CounterC12 ==
    (eop \in {"predict", "getCurrentState"} /\ epre.lastUpdateTime # Null) =>
        \E dt \in {FSub(PredictedTime, epre.lastUpdateTime)} :
            /\ eout.timeSinceUpdate = dt
            /\ \A n \in DimNames(EstConfig) :
                  eout.confidence[n] = FExp(FDiv(FNeg(dt), AvgTau(epre.cells[n])))

\* C13: getCurrentState() returns none exactly when update has not been
\* called since construction or the last reset(), and reset() leaves the
\* estimator as the constructor does: every cell at zero state and
\* equilibrium, tau at the midpoint, no last timestamp, no lastUpdateTime.
TheoremC13 ==
    /\ eop = "getCurrentState" => ((eout = Null) <=> (eupds = <<>>))
    /\ eop = "reset" => est = NewEstimator(EstConfig)

\* getCurrentState returning none after a reset of an estimator that had
\* been updated
WitnessC13 ==
    /\ eop = "getCurrentState" /\ eprev = "reset"
    /\ en > 0 /\ eupds = <<>>
    /\ eout = Null

\* update({cardiovascular: 1.0}, 0), update({cardiovascular: 1.0}, 1), then
\* predict(1000000)
ScenarioC ==
    /\ eop = "predict" /\ earg = FromInt(1000000)
    /\ eupds = << <<[n \in {"cardiovascular"} |-> FromInt(1)], FromInt(0)>>,
                  <<[n \in {"cardiovascular"} |-> FromInt(1)], FromInt(1)>> >>

\* |x - y| <= 0.01
Close(x, y) == FGe(Lit(1, 100), FAbs(FSub(x, y)))

\* the weighted aggregate of the equilibrium of the cardiovascular cell
EquilibriumAggregate == Aggregate(epre.cells["cardiovascular"].equilibrium)

\* C20 as stated: in scenario C the cardiovascular dimension is the weighted
\* aggregate of the cell's equilibrium, which is about the input 1.0
\* expanded to [1, 0.5, 0.25, 0.125] and weighted 0.5/0.3/0.15/0.05, that
\* is 0.69375, and is not 0.
CounterC20 ==
    ScenarioC =>
        /\ Close(eout.dimensions["cardiovascular"], EquilibriumAggregate)
        /\ Close(eout.dimensions["cardiovascular"], Lit(69375, 100000))
        /\ eout.dimensions["cardiovascular"] # Zero

\* C20, amended: in scenario C the cardiovascular dimension is the weighted
\* aggregate of the cell's equilibrium, which after two updates with 1.0 is
\* 0.51 times the expanded input, so the value is 0.51 * 0.69375 = 0.3538,
\* and is not 0.
TheoremC20 ==
    ScenarioC =>
        /\ Close(eout.dimensions["cardiovascular"], EquilibriumAggregate)
        /\ Close(eout.dimensions["cardiovascular"], Lit(35381, 100000))
        /\ FGt(eout.dimensions["cardiovascular"], Zero)

\* scenario C has run, and the cell's state before the prediction was still
\* far from its equilibrium
WitnessC20 ==
    /\ ScenarioC
    /\ ~Close(Aggregate(epre.cells["cardiovascular"].state), EquilibriumAggregate)
    /\ Close(epre.cells["cardiovascular"].equilibrium[1], Lit(51, 100))


----------------------------------------------------------------------------
(* Claims about InterventionPlanner                                        *)

\* the last call was plan and it returned a plan
PlanReturned == pop = "plan" /\ ~pout.threw

\* plan with the arguments of the last call, under another lambda
PlanUnder(lambda) ==
    Plan([planner.config EXCEPT !.lambda = lambda],
         pargs.currentState, pargs.targetState, pargs.constraints)

\* C14: for the same library, maxActions, costWeight, constraints and
\* (current, target) pair, a plan under a larger lambda never has a larger
\* activeCount than the plan under the smaller lambda.
TheoremC14 ==
    PlanReturned =>
      \A lambda2 \in Lambdas :
        FGe(lambda2, planner.config.lambda) =>
          Let1(PlanUnder(lambda2), LAMBDA plan2 :
            ~plan2.threw /\ plan2.activeCount <= pout.activeCount)

WitnessC14 ==
    /\ PlanReturned
    /\ planner.config.lambda = Lit(1, 10)
    /\ pout.activeCount = 2
    /\ PlanUnder(Lit(2, 10)).activeCount = 0

\* C15: when plan is called with constraints.maxCost = c, c = 0 included,
\* every PlannedAction of the returned plan has action.cost <= c.
TheoremC15 ==
    (pop = "plan" /\ pargs.constraints.maxCost # Undefined) =>
      /\ ~pout.threw
      /\ \A i \in 1..Len(pout.actions) :
            FGe(pargs.constraints.maxCost, pout.actions[i].action.cost)

WitnessC15 ==
    /\ PlanReturned
    /\ pargs.constraints.maxCost = Lit(15, 100)
    /\ \E i \in 1..Len(pout.actions) :
          pout.actions[i].action.cost = Lit(15, 100)
    /\ \E i \in 1..Len(planner.config.actions) :
          FGt(planner.config.actions[i].cost, Lit(15, 100))

\* C16: when plan is called with constraints.maxDuration = d, d = 0
\* included, every returned action has duration <= d; and when it is called
\* with constraints.excludeCategories, no returned action has a category of
\* that list.
CounterC16 ==
    PlanReturned =>
      /\ pargs.constraints.maxDuration # Undefined =>
           \A i \in 1..Len(pout.actions) :
              FGe(pargs.constraints.maxDuration, pout.actions[i].action.duration)
      /\ pargs.constraints.excludeCategories # Undefined =>
           \A i \in 1..Len(pout.actions) :
              ~Includes(pargs.constraints.excludeCategories,
                        pout.actions[i].action.category)

\* the effect e of an action is one of largest absolute magnitude
Dominant(action, e) ==
    /\ e \in 1..Len(action.effects)
    /\ \A j \in 1..Len(action.effects) :
          FGe(FAbs(action.effects[e].magnitude), FAbs(action.effects[j].magnitude))

\* the arguments of scenario D
ScenarioD ==
    [currentState |-> <<[key |-> "stress", value |-> Lit(9, 10)],
                        [key |-> "energy", value |-> Lit(2, 10)]>>,
     targetState |-> <<[key |-> "stress", value |-> Lit(2, 10)],
                       [key |-> "energy", value |-> Lit(8, 10)]>>,
     constraints |-> NoConstraints]

\* C17: with the default config and library, the plan of scenario D has
\* activeCount <= maxActions, an action whose dominant effect is on stress
\* with negative magnitude, and an action whose dominant effect is on energy
\* with positive magnitude.
CounterC17 ==
    (pop = "plan" /\ planner.config = DefaultPlannerConfig /\ pargs = ScenarioD) =>
      /\ ~pout.threw
      /\ pout.activeCount <= planner.config.maxActions
      /\ \E i \in 1..Len(pout.actions) :
            \E e \in 1..Len(pout.actions[i].action.effects) :
               /\ Dominant(pout.actions[i].action, e)
               /\ pout.actions[i].action.effects[e].dimension = "stress"
               /\ FLt(pout.actions[i].action.effects[e].magnitude, Zero)
      /\ \E i \in 1..Len(pout.actions) :
            \E e \in 1..Len(pout.actions[i].action.effects) :
               /\ Dominant(pout.actions[i].action, e)
               /\ pout.actions[i].action.effects[e].dimension = "energy"
               /\ FGt(pout.actions[i].action.effects[e].magnitude, Zero)

\* the Euclidean norm of target - current over the union of the keys of
\* the two states, a missing key counting as 0
GapNorm(current, target) ==
    Let1(ObjKeys(current)
           \o SelectSeq(ObjKeys(target),
                        LAMBDA k : \A i \in 1..Len(current) : current[i].key # k),
         LAMBDA keys :
           FSqrt(SumLoop(
             SeqFrom(LAMBDA i :
                       Let1(FSub(IF ObjGet(target, keys[i]) = Undefined THEN Zero
                                 ELSE ObjGet(target, keys[i]),
                                 IF ObjGet(current, keys[i]) = Undefined THEN Zero
                                 ELSE ObjGet(current, keys[i])),
                            LAMBDA v : FMul(v, v)),
                     1, Len(keys)),
             1, Zero)))

\* no action of the library is left by excludeCategories
NoneAvailable ==
    \A i \in 1..Len(planner.config.actions) :
       /\ pargs.constraints.excludeCategories # Undefined
       /\ Includes(pargs.constraints.excludeCategories,
                   planner.config.actions[i].category)

\* C18: plan raises no exception; when the library is empty or every action
\* is removed by excludeCategories the plan is empty: no actions,
\* activeCount 0, totalCost 0, no explanation, and expectedGap the Euclidean
\* norm of the original gap.
TheoremC18 ==
    pop = "plan" =>
      /\ ~pout.threw
      /\ NoneAvailable =>
           /\ pout.actions = <<>>
           /\ pout.activeCount = 0
           /\ pout.totalCost = Zero
           /\ pout.explanation = <<>>
           /\ pout.expectedGap = GapNorm(pargs.currentState, pargs.targetState)

WitnessC18 ==
    /\ PlanReturned
    /\ planner.config.actions = DefaultActions
    /\ pargs.constraints.excludeCategories # Undefined
    /\ pargs.constraints.excludeCategories = AllCategories
    /\ ObjGet(pargs.currentState, "sleep") # Undefined
    /\ ObjGet(pargs.targetState, "sleep") = Undefined
    /\ pout.activeCount = 0
    /\ FGt(pout.expectedGap, One)

\* C19: quickWin returns the first action of the plan under maxCost 0.3 and
\* maxDuration 15, or none when that plan is empty; a returned action has
\* priority 1, cost <= 0.3, duration <= 15 and a score above 0.1.
TheoremC19 ==
    pop = "quickWin" =>
      Let1(Plan(planner.config, pargs.currentState, pargs.targetState,
                Constraints(Lit(3, 10), FromInt(15), Undefined)),
           LAMBDA plan :
             /\ ~plan.threw
             /\ IF plan.actions = <<>> THEN pout = Null
                ELSE /\ pout = plan.actions[1]
                     /\ pout.priority = 1
                     /\ FGe(Lit(3, 10), pout.action.cost)
                     /\ FGe(FromInt(15), pout.action.duration)
                     /\ FGt(pout.weight, Lit(1, 10)))

WitnessC19 ==
    /\ pop = "quickWin"
    /\ planner.config = DefaultPlannerConfig
    /\ pout # Null
    /\ pout.action.id = "meditation_10min"
    /\ pout.priority = 1

\* the gap of the last call
LastGap == CalculateGap(pargs.currentState, pargs.targetState)

\* the actions the last call could select: those left by the filters and
\* within the budget
LastAvailable ==
    SelectSeq(AvailableActions(planner.config.actions, pargs.constraints),
              LAMBDA a : ~OverBudget(a, pargs.constraints.maxCost))

\* the action is one of the returned plan
Planned(action) ==
    \E i \in 1..Len(pout.actions) : pout.actions[i].action.id = action.id

\* C25: in every plan activeCount = number of actions = number of
\* explanation lines <= maxActions; every selected action has weight > 0.1;
\* no unselected available action scores higher than a selected one; the
\* actions are in non-increasing score order; the i-th has priority i.
TheoremC25 ==
    PlanReturned =>
      /\ pout.activeCount = Len(pout.actions)
      /\ Len(pout.explanation) = Len(pout.actions)
      /\ Len(pout.actions) <= planner.config.maxActions
      /\ \A i \in 1..Len(pout.actions) :
            /\ FGt(pout.actions[i].weight, Lit(1, 10))
            /\ pout.actions[i].priority = i
            /\ i > 1 => FGe(pout.actions[i - 1].weight, pout.actions[i].weight)
      /\ Let2(LastAvailable, LastGap, LAMBDA available, gap :
           \A k \in 1..Len(available) :
              ~Planned(available[k]) =>
                Let1(ActionScore(available[k], gap, planner.config), LAMBDA score :
                  \A i \in 1..Len(pout.actions) :
                     FGe(pout.actions[i].weight, score)))

WitnessC25 ==
    /\ PlanReturned
    /\ planner.config.maxActions = 5
    /\ pout.activeCount = 5
    /\ FGt(pout.actions[1].weight, pout.actions[5].weight)
    /\ ~Planned(ColdShower)
    /\ FGt(ActionScore(ColdShower, LastGap, planner.config), Lit(1, 10))

\* what the claim has one effect add to the benefit: the overshoot penalty
\* whether or not the signs match, and min(|gap|, |magnitude|) * confidence
\* in addition when they match
ClaimedEffectBenefit(benefit, effect, gap) ==
    Let1(OrZero(ObjGet(gap, effect.dimension)), LAMBDA dimGap :
      Let1(IF \/ FGt(dimGap, Zero) /\ FGt(effect.magnitude, Zero)
              \/ FLt(dimGap, Zero) /\ FLt(effect.magnitude, Zero)
           THEN FAdd(benefit, FMul(FMin(FAbs(dimGap), FAbs(effect.magnitude)),
                                   effect.confidence))
           ELSE benefit,
           LAMBDA matched :
             IF FGt(FAbs(effect.magnitude), FMul(FAbs(dimGap), FromInt(2)))
             THEN FSub(matched, FMul(FMul(Lit(1, 10), FAbs(effect.magnitude)),
                                     effect.confidence))
             ELSE matched))

RECURSIVE ClaimedBenefit(_, _, _, _)
ClaimedBenefit(effects, i, gap, benefit) ==
    IF i > Len(effects) THEN benefit
    ELSE Let1(ClaimedEffectBenefit(benefit, effects[i], gap), LAMBDA b :
           ClaimedBenefit(effects, i + 1, gap, b))

\* the score of an action whose effects accrue what the claim says
ClaimedScore(action, gap, config) ==
    Let2(ClaimedBenefit(action.effects, 1, gap, Zero),
         SumLoop([j \in 1..Len(action.effects) |-> action.effects[j].confidence],
                 1, Zero),
         LAMBDA benefit, totalWeight :
           FMax(Zero,
                FSub(FSub(IF FGt(totalWeight, Zero) THEN FDiv(benefit, totalWeight)
                          ELSE benefit,
                          config.lambda),
                     FMul(config.costWeight, action.cost))))

\* C26: every effect with |magnitude| > 2 * |gap[dimension]| accrues the
\* penalty -0.1 * |magnitude| * confidence whether or not its sign matches
\* the gap's, and an effect whose sign matches accrues
\* min(|gap|, |magnitude|) * confidence in addition; so the score of every
\* returned action is the one these accruals give.
CounterC26 ==
    PlanReturned =>
      Let1(LastGap, LAMBDA gap :
        \A i \in 1..Len(pout.actions) :
           pout.actions[i].weight =
             ClaimedScore(pout.actions[i].action, gap, planner.config))

\* magnitude * confidence of the action's effect on the dimension, 0 when
\* it has none
ImpactOn(action, dim) ==
    IF \E j \in 1..Len(action.effects) : action.effects[j].dimension = dim
    THEN Let1(CHOOSE j \in 1..Len(action.effects) :
                /\ action.effects[j].dimension = dim
                /\ \A h \in 1..(j - 1) : action.effects[h].dimension # dim,
              LAMBDA j : FMul(action.effects[j].magnitude,
                              action.effects[j].confidence))
    ELSE Zero

\* gap[dim] minus the sum of the impacts of the returned actions on dim,
\* squared
ResidualSquared(entry) ==
    Let1(FSub(entry.value,
              SumLoop(SeqFrom(LAMBDA i : ImpactOn(pout.actions[i].action, entry.key),
                              1, Len(pout.actions)),
                      1, Zero)),
         LAMBDA v : FMul(v, v))

\* C27: for every plan, expectedGap squared is the sum over the gap's
\* dimensions of (gap[dim] - sum of the selected actions' magnitude *
\* confidence on dim) squared; totalCost is the sum of the selected
\* actions' costs; each expectedImpact has exactly the gap's keys, with
\* magnitude * confidence of the action's effect on the key or 0, whatever
\* else was selected.
TheoremC27 ==
    PlanReturned =>
      Let1(LastGap, LAMBDA gap :
        /\ Close(FMul(pout.expectedGap, pout.expectedGap),
                 SumLoop(SeqFrom(LAMBDA d : ResidualSquared(gap[d]), 1, Len(gap)),
                         1, Zero))
        /\ pout.totalCost =
             SumLoop(SeqFrom(LAMBDA i : pout.actions[i].action.cost,
                             1, Len(pout.actions)),
                     1, Zero)
        /\ \A i \in 1..Len(pout.actions) :
              /\ ObjKeys(pout.actions[i].expectedImpact) = ObjKeys(gap)
              /\ \A d \in 1..Len(gap) :
                    pout.actions[i].expectedImpact[d].value =
                      ImpactOn(pout.actions[i].action, gap[d].key))

WitnessC27 ==
    /\ PlanReturned
    /\ pout.activeCount >= 2
    /\ ObjGet(pout.actions[1].expectedImpact, "sleep") = Zero
    /\ FLt(ObjGet(pout.actions[1].expectedImpact, "stress"), Zero)
    /\ FGt(pout.expectedGap, Lit(1, 10))
    /\ FGt(pout.totalCost, pout.actions[1].action.cost)

----------------------------------------------------------------------------
(* Claims about CfCCell                                                    *)

\* x lies between a and b, in either order
Between(x, a, b) == FGe(x, FMin(a, b)) /\ FGe(FMax(a, b), x)

\* the least and the greatest of 0 and the observations seen so far in
\* component i
RECURSIVE SpanLow(_, _, _, _)
SpanLow(steps, i, k, low) ==
    IF k > Len(steps) THEN low
    ELSE SpanLow(steps, i, k + 1,
                 IF i <= Len(steps[k].observation)
                 THEN FMin(low, steps[k].observation[i]) ELSE low)

RECURSIVE SpanHigh(_, _, _, _)
SpanHigh(steps, i, k, high) ==
    IF k > Len(steps) THEN high
    ELSE SpanHigh(steps, i, k + 1,
                  IF i <= Len(steps[k].observation)
                  THEN FMax(high, steps[k].observation[i]) ELSE high)

InSpan(x, i) ==
    Between(x, SpanLow(csteps, i, 1, Zero), SpanHigh(csteps, i, 1, Zero))

\* the dt that step is claimed to use
ClaimedDt ==
    IF cpre.lastTimestamp = Null THEN Lit(1, 10)
    ELSE IF FGe(FSub(carg.timestamp, cpre.lastTimestamp), Lit(1, 10000))
         THEN FSub(carg.timestamp, cpre.lastTimestamp)
         ELSE Lit(1, 10000)

\* what C30 says of the timestamps: the dt of a step is positive and is the
\* claimed one, and lastTimestamp becomes the timestamp given
StepTimes ==
    /\ FGt(cdt, Zero)
    /\ cdt = ClaimedDt
    /\ cfc.lastTimestamp = carg.timestamp

\* C30 as stated: after a step the dt used is strictly positive (0.1 on the
\* first call, else max(timestamp - lastTimestamp, 1e-4)), lastTimestamp is
\* the timestamp given, every state[i] lies between its previous value and
\* the updated equilibrium[i], and state and equilibrium lie in the interval
\* spanned by 0 and the observations seen so far in that component.
CounterC30 ==
    cop = "step" =>
      /\ StepTimes
      /\ \A i \in 1..ccfg.stateDim :
            /\ Between(cfc.state[i], cpre.state[i], cfc.equilibrium[i])
            /\ InSpan(cfc.state[i], i)
            /\ InSpan(cfc.equilibrium[i], i)

\* the rounding allowed around a and b: a thousandth of the larger magnitude
Slack(a, b) == FMul(Lit(1, 1000), FMax(FAbs(a), FAbs(b)))

\* x lies between a and b up to rounding
NearlyBetween(x, a, b) ==
    /\ FGe(x, FSub(FMin(a, b), Slack(a, b)))
    /\ FGe(FAdd(FMax(a, b), Slack(a, b)), x)

NearlyInSpan(x, i) ==
    NearlyBetween(x, SpanLow(csteps, i, 1, Zero), SpanHigh(csteps, i, 1, Zero))

\* C30, up to rounding: after a step the dt used is strictly positive (0.1
\* on the first call, else max(timestamp - lastTimestamp, 1e-4)),
\* lastTimestamp is the timestamp given even when it is smaller than the
\* previous one, and, up to floating-point rounding, every state[i] lies
\* between its previous value and the updated equilibrium[i], and state and
\* equilibrium lie in the interval spanned by 0 and the observations seen so
\* far in that component.
TheoremC30 ==
    cop = "step" =>
      /\ StepTimes
      /\ \A i \in 1..ccfg.stateDim :
            /\ NearlyBetween(cfc.state[i], cpre.state[i], cfc.equilibrium[i])
            /\ NearlyInSpan(cfc.state[i], i)
            /\ NearlyInSpan(cfc.equilibrium[i], i)

\* a step with a timestamp before the previous one, after steps with
\* observations of both signs: dt is the epsilon and the state has moved
WitnessC30 ==
    /\ cop = "step"
    /\ cpre.lastTimestamp # Null
    /\ FGt(cpre.lastTimestamp, carg.timestamp)
    /\ cdt = Lit(1, 10000)
    /\ \E k \in 1..Len(csteps) : csteps[k].observation # carg.observation
    /\ cfc.state[1] # cpre.state[1]
    /\ TheoremC30

\* C28 as stated: with tauMin <= tauMax every tau[i] is within
\* [tauMin, tauMax], after any steps.
CounterC28 ==
    FGe(ccfg.tauMax, ccfg.tauMin) =>
      \A i \in 1..ccfg.stateDim :
         FGe(cfc.tau[i], ccfg.tauMin) /\ FGe(ccfg.tauMax, cfc.tau[i])

\* C28, up to rounding: with tauMin <= tauMax every tau[i] is within
\* [tauMin, tauMax] after any steps, up to the floating-point rounding of
\* 0.1 * targetTau + 0.9 * tau[i]: the smoothing update does not overshoot
\* the bounds by more than that.
TheoremC28 ==
    FGe(ccfg.tauMax, ccfg.tauMin) =>
      \A i \in 1..ccfg.stateDim :
         NearlyBetween(cfc.tau[i], ccfg.tauMin, ccfg.tauMax)

\* a second or later step that moved tau[1], under bounds that differ
WitnessC28 ==
    /\ cop = "step"
    /\ Len(csteps) >= 2
    /\ FGt(ccfg.tauMax, ccfg.tauMin)
    /\ cfc.tau[1] # cpre.tau[1]
    /\ cpre.tau[1] # NewCell(ccfg).tau[1]
    /\ TheoremC28

\* x is y within a hundredth of the magnitude of the signal: the larger of
\* 1, |y| and |z|
AboutScale(x, y, z) ==
    FGe(FMul(Lit(1, 100), FMax(One, FMax(FAbs(y), FAbs(z)))), FAbs(FSub(x, y)))

\* the last step repeated the call before it: same observation, same
\* timestamp
StepRepeated ==
    /\ cop = "step"
    /\ Len(csteps) >= 2
    /\ csteps[Len(csteps) - 1] = csteps[Len(csteps)]

PredictedFarAhead ==
    /\ cop = "predict"
    /\ csteps # <<>>
    /\ FGe(FSub(carg.timestamp, cfc.lastTimestamp), FMul(FromInt(10), ccfg.tauMax))

\* every step so far was given the same observation
FixedObservation ==
    \A k \in 1..Len(csteps) : csteps[k].observation = csteps[1].observation

\* C22: after steps up to time t, predict(t + D) with D much larger than
\* tauMax (here ten times or more) returns in every component the cell's
\* equilibrium within tolerance: where the stored state is not about the
\* equilibrium the result is not the stored state, and where the equilibrium
\* is not zero the result is not zero.
TheoremC22 ==
    PredictedFarAhead =>
      \A i \in 1..ccfg.stateDim :
         /\ About(cout[i], cfc.equilibrium[i])
         /\ ~About(cfc.state[i], cfc.equilibrium[i]) => cout[i] # cfc.state[i]
         /\ cfc.equilibrium[i] # Zero => cout[i] # Zero

\* a far prediction after two or more steps with a fixed observation, when
\* the stored state is about neither the equilibrium nor zero
WitnessC22 ==
    /\ PredictedFarAhead
    /\ FixedObservation
    /\ Len(csteps) >= 2
    /\ ~About(cfc.state[1], cfc.equilibrium[1])
    /\ ~About(cfc.state[1], Zero)
    /\ ~About(cout[1], Zero)
    /\ TheoremC22

=========================================================================
